---- MODULE Spec2Model ----
(***************************************************************************)
(* Model of the ephemeris-engine daemon: the scheduler's predict-wait-     *)
(* capture loop (internal/scheduler), the command plane that feeds it      *)
(* (internal/app handlers), the application state it drives (internal/app) *)
(* and the event hub's broadcast queue (internal/ws).                      *)
(*                                                                         *)
(* Time is a discrete clock `now`.  One tick is an arbitrary positive      *)
(* amount of time, so a timer of any positive duration may expire once the *)
(* clock has advanced past the instant it was armed.  The last clock value *)
(* MaxTime stands for every instant at or beyond the horizon: there every  *)
(* armed timer may expire.                                                 *)
(*                                                                         *)
(* Hub.BroadcastJSON never blocks and returns nothing, so no scheduler     *)
(* decision depends on the broadcast queue.  Spec therefore follows the    *)
(* scheduler with the queue left out, and SpecHub follows the queue with   *)
(* the state changes of the scheduler as its callers.                      *)
(***************************************************************************)
EXTENDS Integers, Sequences, FiniteSets, TLC

\* ------------------------------------------------------------------ bounds
\* Horizon of the clock.
MaxTime == 3
\* Number of commands the HTTP handlers send in one behaviour.
MaxCmds == 2
\* Capacity of the hub's broadcast queue in the model (256 in ws.NewHub).
BroadcastCap == 2
\* Number of connections that subscribe to the hub.
MaxSubs == 2
\* Number of events handed to BroadcastJSON while subscribers are followed.
MaxMsgs == 4
\* Number of calls of loadOrFetch (each creates at most one file).
MaxCalls == 3
\* Number of captures that complete while the stats are read.
MaxCaptures == 2
\* Number of events broadcast while the log ring is followed.
MaxEvents == 4
\* App.logBufCap (500 in App.New, line 80).
LogBufCap == 2
\* Audio bytes one capture writes at most.
MaxBytes == 3
\* Versions of a configuration file.
MaxVersions == 2
\* Changes made to the configuration files.
MaxEdits == 2
\* Windows the propagator reports for one satellite, and the latest AOS.
MaxWindows == 2
MaxAos == 2
\* Lines of a text of elements.
MaxLines == 6

\* --------------------------------------------------------- program constants
\* make(chan Command, 4)
CommandsCap == 4

\* capture.Satellites
Satellites ==
  << [Name |-> "NOAA-15", NoradID |-> 25338],
     [Name |-> "NOAA-18", NoradID |-> 28654],
     [Name |-> "NOAA-19", NoradID |-> 33591] >>

NoSat == [Name |-> "", NoradID |-> 0]

\* capture.SatelliteByNoradID: the first catalog entry with that id, or nil.
SatelliteByNoradID(id) ==
  LET hits == { i \in 1..Len(Satellites) : Satellites[i].NoradID = id }
  IN  IF hits = {} THEN NoSat
      ELSE Satellites[CHOOSE i \in hits : \A j \in hits : i <= j]

DaemonStates == {"BOOTING", "IDLE", "WAITING_FOR_PASS", "RECORDING", "DECODING"}

\* ------------------------------------------------------------------ passes
\* The visibility windows the propagator reports for the station, already
\* filtered by elevation and sorted by AOS as Predictor.ComputePasses
\* returns them.
PredictedPasses ==
  << [sat |-> "NOAA-15", aos |-> 1, los |-> 2],
     [sat |-> "NOAA-19", aos |-> 2, los |-> 3] >>

NoPass == [sat |-> "", aos |-> 0, stage |-> ""]

\* scheduler.PassInfo built from a pass and a stage tag.
PassInfo(p, stage) == [sat |-> p.sat, aos |-> p.aos, stage |-> stage]

\* Run, lines 156-163: drop the passes whose AOS is not after `t`.
Upcoming(passes, t) == SelectSeq(passes, LAMBDA p : p.aos > t)

Min(a, b) == IF a <= b THEN a ELSE b

\* Connections that subscribe to the hub; connection 1 is the slow one, whose
\* writes may run into the write deadline.
Subs == 1..MaxSubs
SlowSub == 1

\* A broadcast message: the n-th event handed to BroadcastJSON (events carry
\* their own `ts`, so no two are equal).
Message(n) == [type |-> "heartbeat", from |-> "", to |-> "", ts |-> n]
NoMsg == Message(0)

\* The callers of loadOrFetch: the scheduler's predictor and the predictor an
\* HTTP handler builds for itself.
Fetchers == {"scheduler", "handler"}
Inodes == 1..MaxCalls

\* The bodies the network may serve to the n-th call, as the chunks
\* writeCache writes: a 200 response with no content, or the element sets as
\* published at that moment.
Bodies(n) == { << >>, << [v |-> n, part |-> 1], [v |-> n, part |-> 2] >> }
Embedded == << [v |-> 0, part |-> 1], [v |-> 0, part |-> 2] >>

\* Which call of loadOrFetch this is, what it returned (done, content, err,
\* tier) and what it
\* met on its way: fresh, a non-empty fresh file was read; net, the network
\* was contacted; netOK, fetchFromNetwork returned no error; stale, a
\* non-empty file was read after the network failed.
NoRes ==
  [call |-> 0, done |-> FALSE, content |-> << >>, err |-> FALSE, tier |-> 0,
   fresh |-> FALSE, net |-> FALSE, netOK |-> FALSE, stale |-> FALSE]

\* The concurrent callers of App.emit (HTTP handlers serving a reload).
Emitters == {"h1", "h2"}

\* An event as emit and the broadcast helpers see it: the n-th event handed
\* to the hub, its type and the component that stamped it.
Event(n, type, component) == [id |-> n, type |-> type, component |-> component]
NoEvent == Event(0, "", "")

\* The concurrent requests of POST /api/reload and callers of getConfig.
Reloaders == {"r1", "r2"}
Getters == {"g1"}

\* The configuration files of two profiles. A file holds a
\* valid configuration of version 1..MaxVersions, or is missing (0) or does
\* not parse or validate (-1).
Paths == {"main.toml", "palmdale.toml"}
Missing == 0
Invalid == 0 - 1
Contents == {Missing, Invalid} \cup (1..MaxVersions)

\* config.Config, two of its fields; a file of version v gives both.
Config(v) == [root |-> v, rate |-> v]

\* Capture has not returned; its results: the path or "", and the error.
NoRet == [returned |-> FALSE, outPath |-> "", err |-> FALSE]
Ret(path, err) == [returned |-> TRUE, outPath |-> path, err |-> err]

\* uint32(n) of a signed n below 2^31: a value that is not negative is kept,
\* a negative one wraps to n + 2^32.
Uint32(n) == IF n >= 0 THEN n ELSE (n + 2147483647) + 2147483647 + 2

\* handleStatus has written no response.
NoStatus == [state |-> "", current_pass |-> NoPass]

\* handleStats has written no response.
NoResp == [total |-> -1, bySat |-> << >>, crashed |-> FALSE]

VARIABLES
  pc,             \* scheduler: position of Run
  sleepKind,      \* scheduler: which sleep point it is in
  sleepStart,     \* scheduler: clock value when the sleep timer was armed
  upcoming,       \* scheduler: Run's local `upcoming`
  idx,            \* scheduler: index of the inner range loop
  paused,         \* Runner.paused
  captureCancel,  \* Runner.captureCancel is non-nil
  captureCtxDone, \* the capture's child context was cancelled by cancel()
  capKind,        \* "scheduled", "triggered" or "" : who called Capture
  req,            \* the CaptureRequest in flight
  capErr,         \* Capture returned an error
  Commands,       \* Runner.Commands
  cmds,           \* per command sent: its sender's view
  replyCh,        \* per command: its Reply channel
  nextCmd,        \* number of commands sent so far
  ctxDone,        \* the process context is cancelled (shutdown)
  now,            \* the clock
  state,          \* App.state
  currentPass,    \* App.currentPass
  captureStats,   \* App.captureStats
  skipped,        \* passes for which a skip command was handled (history)
  broadcast       \* Hub.broadcast

schedVars == << pc, sleepKind, sleepStart, upcoming, idx, paused, captureCancel,
                captureCtxDone, capKind, req, capErr, skipped >>
cmdVars   == << Commands, cmds, replyCh, nextCmd >>
appVars   == << state, currentPass, captureStats >>
hubVars   == << broadcast >>

\* The hub's subscribers (internal/ws).
VARIABLES
  clients,        \* Hub.clients
  register,       \* Hub.register
  unregister,     \* Hub.unregister
  hubPc,          \* Hub.Run: "select", "range", "write" or "returned"
  hubMsg,         \* Hub.Run: the message being fanned out
  hubLeft,        \* Hub.Run: clients the range loop has still to visit
  hubTo,          \* Hub.Run: the client whose write is in progress
  subSt,          \* per connection: "new", "open", "closed", "left"
  received,       \* per connection: the messages written to it
  nextMsg,        \* number of BroadcastJSON calls so far (history)
  dropped,        \* messages BroadcastJSON discarded (history)
  dequeued,       \* messages the worker took from the queue (history)
  regAt,          \* per connection: Len(dequeued) when it was registered
  bcastAtReg,     \* per connection: nextMsg when it was registered
  lostBySlow      \* connections registered when a message was discarded
                  \* during a write to the slow connection (history)

subVars == << clients, register, unregister, hubPc, hubMsg, hubLeft, hubTo,
              subSt, received, nextMsg, dropped, dequeued, regAt, bcastAtReg,
              lostBySlow >>

\* The TLE cache file and the callers of TLEStore.loadOrFetch
\* (internal/predict).
VARIABLES
  cacheIno,       \* the file at cachePath: its inode, 0 when absent
  data,           \* per inode: the chunks written so far
  intent,         \* per inode: the body its writeCache call was given
  aged,           \* per inode: its ModTime is older than maxAge
  nextIno,        \* number of files created so far
  embeddedTLE,    \* the embedded copy is non-empty
  calls,          \* number of calls started so far
  fpc,            \* per caller: position in loadOrFetch
  fkind,          \* per caller: "fetch" or "force"
  fd,             \* per caller: the inode its ReadFile has open
  tmp,            \* per caller: the inode of its temp file
  body,           \* per caller: the body fetchFromNetwork returned
  res,            \* per caller: what the call returned
  startIno,       \* per caller: the fresh cache file when the call began
  disturbed       \* per caller: the file changed or aged during the call

tleVars == << cacheIno, data, intent, aged, nextIno, embeddedTLE, calls, fpc,
              fkind, fd, tmp, body, res, startIno, disturbed >>

\* The readers of App.captureStats (handleStats).
VARIABLES
  statMu,         \* holder of captureStats.mu: "", "writer" or "reader"
  wPc,            \* onCaptureComplete: position
  wSat,           \* onCaptureComplete: its satellite argument
  rPc,            \* handleStats: position
  rTotal,         \* handleStats: the copied TotalCaptures
  resp,           \* handleStats: the encoded response
  nCaptures       \* number of completed captures so far

statVars == << statMu, wPc, wSat, rPc, rTotal, resp, nCaptures >>

\* The log ring of the daemon (App.logBuf) and the callers of App.emit.
VARIABLES
  logBuf,         \* App.logBuf
  logBufMu,       \* holder of App.logBufMu, or ""
  ePc,            \* each caller of emit: position
  eEv,            \* each caller of emit: its payload
  sent,           \* every event handed to BroadcastJSON so far, in order
  returned,       \* the events whose broadcasting call has returned
  appended,       \* every entry appended to the ring so far, in order
  logsRead        \* the entries of the last response of handleLogs

logVars == << logBuf, logBufMu, ePc, eEv, sent, returned, appended, logsRead >>

\* The scheduler's calls of setState and notifyPass, step by step, and a
\* reader of the status (handleStatus).
VARIABLES
  tCalls,         \* the calls the scheduler still makes in this round
  tClear,         \* transition has stored IDLE and not yet cleared the pass
  sPc,            \* handleStatus: position
  sState,         \* handleStatus: the state it loaded
  statusResp      \* handleStatus: its last response

statusVars == << tCalls, tClear, sPc, sState, statusResp >>

\* One call of capture.Runner.Capture and its output file.
VARIABLES
  cPc,            \* Capture: position
  simulate,       \* Runner.Simulate
  capCtxDone,     \* the capture's context is cancelled or LOS has passed
  radio,          \* rtl_fm: "", "missing", "running", "crashed" or "killed"
  fExists,        \* the output file exists
  fLen,           \* its length in bytes
  riffSize,       \* the 32-bit field at offset 4
  dataSize,       \* the 32-bit field at offset 40
  bytesWritten,   \* the audio bytes counted by the copy loop
  fixFailed,      \* fixWAVHeader returned an error
  cRet            \* what Capture returned

capVars == << cPc, simulate, capCtxDone, radio, fExists, fLen, riffSize,
              dataSize, bytesWritten, fixFailed, cRet >>

\* The hot reload of the configuration.
VARIABLES
  cfg,            \* App.cfg
  configPath,     \* App.configPath
  cfgMu,          \* App.cfgMu: its writer ("" for none) and its readers
  files,          \* the configuration files on disk, by path
  edits,          \* how often a configuration file has been changed
  hPc,            \* handleReload, per request: position
  hPath,          \* handleReload: loadPath
  hCfg,           \* handleReload: newCfg
  hResp,          \* handleReload: the response written
  gPc,            \* getConfig, per caller: position
  gCfg,           \* getConfig: the copy being made
  gResult,        \* getConfig: the configuration returned last
  loaded          \* the pairs of configuration and path config.Load produced

reloadVars == << cfg, configPath, cfgMu, files, edits, hPc, hPath, hCfg, hResp, gPc,
                 gCfg, gResult, loaded >>

\* One call of Predictor.ComputePasses.
VARIABLES
  pIn,            \* what the call found: elements, windows, minimum elevation
  pOut,           \* what the call returned
  tIn,            \* parseForNOAA: the lines of the text it was given
  tOut            \* parseForNOAA: what it returned

predictVars == << pIn, pOut, tIn, tOut >>

moreVars  == << logVars, statusVars, capVars, reloadVars, predictVars >>
extVars   == << subVars, tleVars, statVars, moreVars >>
vars      == << schedVars, cmdVars, appVars, hubVars, extVars, ctxDone, now >>

\* ------------------------------------------------------------ internal/ws
StateEvent(from, to) == [type |-> "state", from |-> from, to |-> to]
OtherEvent(type) == [type |-> type, from |-> "", to |-> ""]

\* The event types of telemetry/events.go besides `state`.
OtherEventTypes == {"heartbeat", "log", "progress", "pass_scheduled"}

\* A full queue making room by discarding its oldest message.
BroadcastJSON_DropOldest(q, ev) ==
  IF Len(q) < BroadcastCap THEN Append(q, ev) ELSE Append(Tail(q), ev)

\* Hub.BroadcastJSON: a non-blocking send on the broadcast channel.
BroadcastJSON(q, ev) == IF Len(q) < BroadcastCap THEN Append(q, ev) ELSE q

\* ----------------------------------------------------------- internal/app
\* App.transition without the early return on an unchanged state.
transition_NoEarlyReturn(st, cp, q, newState) ==
  [state |-> newState,
   currentPass |-> IF newState = "IDLE" THEN NoPass ELSE cp,
   broadcast |-> BroadcastJSON(q, [type |-> "state", from |-> st, to |-> newState])]

\* App.transition: nothing when the state is unchanged; otherwise store the
\* state, broadcast the `state` event, and clear the current pass on IDLE.
transition(st, cp, q, newState) ==
  IF st = newState
    THEN [state |-> st, currentPass |-> cp, broadcast |-> q]
    ELSE [state |-> newState,
          currentPass |-> IF newState = "IDLE" THEN NoPass ELSE cp,
          broadcast |-> BroadcastJSON(q, StateEvent(st, newState))]

\* App.setStateFromScheduler, as the scheduler sees it.
setState(st, cp, newState) == transition(st, cp, << >>, newState)

\* The total counted without the satellite's own count.
onCaptureComplete_TotalOnly(stats, satellite) ==
  [total |-> stats.total + 1, bySat |-> stats.bySat]

\* App.onCaptureComplete (the byte total and the timestamp are left out).
onCaptureComplete(stats, satellite) ==
  [total |-> stats.total + 1,
   bySat |-> [stats.bySat EXCEPT ![satellite] = @ + 1]]

SatNames == { Satellites[i].Name : i \in 1..Len(Satellites) }

\* ------------------------------------------------------- internal/predict
\* Peak elevations of a visibility window, and values of
\* station.min_elevation (validate admits 0..90), in degrees.
Elevations == {0, 45, 90}
MinElevations == {0, 45, 90}

\* A window as GeneratePasses reports it, and the answers of GeneratePasses
\* for one satellite: an error, or at most MaxWindows windows in the order of
\* time.
Window(aos, maxElev) == [aos |-> aos, los |-> aos + 1, maxElev |-> maxElev]
Windows == { Window(a, e) : a \in 1..MaxAos, e \in Elevations }
WindowLists ==
  UNION { { w \in [1..n -> Windows] :
              \A i \in 1..n, j \in 1..n : i < j => w[i].aos < w[j].aos } :
          n \in 0..MaxWindows }
Propagated(ok, err, windows) == [ok |-> ok, err |-> err, windows |-> windows]
GeneratePassesResults ==
  { Propagated(TRUE, FALSE, w) : w \in WindowLists }
  \cup { Propagated(TRUE, TRUE, << >>) }

\* A satellite Fetch returned no elements for: it is not propagated.
NoElements == Propagated(FALSE, FALSE, << >>)

\* The input of a call of ComputePasses: whether Fetch succeeded, for each
\* satellite whether Fetch returned elements (ok) and the answer of the
\* propagator, and the configured minimum elevation.
PredictInput(fetchOK, raw, min) ==
  [fetchOK |-> fetchOK, raw |-> raw, min |-> min]
NoPredictInput == PredictInput(TRUE, [n \in SatNames |-> NoElements], 0)

\* -------------------------------------------------- TLEStore.parseForNOAA
\* The lines of a text of elements: a blank line, a name, and the first and
\* the second element line of NOAA-15, of NOAA-19 and of an object that is
\* not in the catalog.
OtherNoradID == 99999
ElementIds == {25338, 33591, OtherNoradID}
Blank == [kind |-> "blank", id |-> 0]
NameLine == [kind |-> "name", id |-> 0]
Line1(id) == [kind |-> "line1", id |-> id]
Line2(id) == [kind |-> "line2", id |-> id]
TleLines ==
  {Blank, NameLine} \cup { Line1(id) : id \in ElementIds }
                    \cup { Line2(id) : id \in ElementIds }

\* strings.Split(strings.TrimSpace(raw), "\n"): the blank lines at both ends
\* are gone; a text without any other line is one empty line.
RECURSIVE TrimLeft(_)
TrimLeft(lines) ==
  IF lines # << >> /\ Head(lines) = Blank THEN TrimLeft(Tail(lines)) ELSE lines
RECURSIVE TrimRight(_)
TrimRight(lines) ==
  IF lines # << >> /\ lines[Len(lines)] = Blank
    THEN TrimRight(SubSeq(lines, 1, Len(lines) - 1))
    ELSE lines
SplitTrimmed(lines) ==
  IF TrimRight(TrimLeft(lines)) = << >> THEN << Blank >>
  ELSE TrimRight(TrimLeft(lines))

\* sgp4.ParseTLE of a group of three lines: the catalog number of the
\* elements when the second and third line are the two element lines of one
\* object, and 0 for an error.
ParseTLE(l0, l1, l2) ==
  IF l1.kind = "line1" /\ l2.kind = "line2" /\ l1.id = l2.id THEN l1.id ELSE 0

\* capture.Satellites, the catalog numbers: the map `wanted`.
Wanted == { Satellites[i].NoradID : i \in 1..Len(Satellites) }

\* The loop going on with the line after the first of the group.
NextGroup_NextLine(i) == i + 1

\* parseForNOAA, line 147: i += 3.
NextGroup(i) == i + 3

\* parseForNOAA, lines 147-161: the loop from index i (counted from 0) on,
\* with the groups entered so far; a group is recorded under its catalog
\* number with the index of its first line.
RECURSIVE ParseLoop(_, _, _)
ParseLoop(lines, i, result) ==
  IF ~(i + 2 < Len(lines)) THEN result
  ELSE LET id == ParseTLE(lines[i + 1], lines[i + 2], lines[i + 3]) IN
       ParseLoop(lines, NextGroup(i),
                 IF id # 0 /\ id \in Wanted
                   THEN [k \in DOMAIN result \cup {id} |->
                           IF k = id THEN i ELSE result[k]]
                   ELSE result)

\* What parseForNOAA returns.
NoParse == [returned |-> FALSE, err |-> FALSE, tles |-> << >>]
EmptyMap == [k \in {} |-> 0]

\* TLEStore.parseForNOAA: the map of the groups found, or an error when it
\* is empty.
parseForNOAA(raw) ==
  LET result == ParseLoop(SplitTrimmed(raw), 0, EmptyMap) IN
  IF DOMAIN result = {}
    THEN [returned |-> TRUE, err |-> TRUE, tles |-> EmptyMap]
    ELSE [returned |-> TRUE, err |-> FALSE, tles |-> result]

\* What ComputePasses returns.
NoPasses == [returned |-> FALSE, err |-> FALSE, passes |-> << >>]
Passes(err, passes) == [returned |-> TRUE, err |-> err, passes |-> passes]

\* predict.Pass built from a window of a satellite.
Pass(name, rp) ==
  [sat |-> name, aos |-> rp.aos, los |-> rp.los, maxElev |-> rp.maxElev]

\* A window is kept only when its peak is above the minimum.
Keeps_AboveOnly(rp, min) == ~(rp.maxElev <= min)

\* ComputePasses, lines 122-124: a window whose peak is below the minimum is
\* discarded.
Keeps(rp, min) == ~(rp.maxElev < min)

\* Nothing is taken from any satellite once one has no elements.
FromSatellite_AllOrNothing(in, name) ==
  IF (\E n \in SatNames : ~in.raw[n].ok) \/ in.raw[name].err
    THEN << >>
    ELSE SelectSeq(in.raw[name].windows, LAMBDA rp : Keeps(rp, in.min))

\* ComputePasses, lines 105-135: the windows kept from one satellite; none
\* when it has no elements or its propagation fails.
FromSatellite(in, name) ==
  IF ~in.raw[name].ok \/ in.raw[name].err
    THEN << >>
    ELSE SelectSeq(in.raw[name].windows, LAMBDA rp : Keeps(rp, in.min))

\* ComputePasses, lines 102-136: the passes accumulated over the first n
\* satellites of the catalog.
RECURSIVE Accumulated(_, _)
Accumulated(in, n) ==
  IF n = 0 THEN << >>
  ELSE LET kept == FromSatellite(in, Satellites[n].Name) IN
       Accumulated(in, n - 1) \o
       [i \in 1..Len(kept) |-> Pass(Satellites[n].Name, kept[i])]

\* The orders of the elements of a set.
RECURSIVE Orders(_)
Orders(S) ==
  IF S = {} THEN { << >> }
  ELSE UNION { { << x >> \o o : o \in Orders(S \ {x}) } : x \in S }

\* The passes left in the order they were accumulated in.
SortSlice_Unsorted(s) == { s }

\* ComputePasses, lines 138-140: sort.Slice with AOS.Before as the order. The
\* sort is not stable: passes of equal AOS come out in any order.
RECURSIVE SortSlice(_)
SortSlice(s) ==
  IF s = << >> THEN { << >> }
  ELSE LET first == CHOOSE a \in { s[i].aos : i \in 1..Len(s) } :
                      \A i \in 1..Len(s) : a <= s[i].aos
           rest  == SelectSeq(s, LAMBDA p : p.aos # first)
       IN  { o \o r : o \in Orders({ s[i] : i \in { j \in 1..Len(s) : s[j].aos = first } }),
                      r \in SortSlice(rest) }

\* Predictor.ComputePasses: what it may return for an input.
ComputePasses(in) ==
  IF ~in.fetchOK
    THEN { Passes(TRUE, << >>) }
    ELSE { Passes(FALSE, sorted) :
             sorted \in SortSlice(Accumulated(in, Len(Satellites))) }

\* ----------------------------------------------------- scheduler commands
\* scheduler.CommandResult: OK, and whether Error carries a text (the wording
\* of Message and Error is left out).
Result(ok, text) == [ok |-> ok, error |-> ~ok]

\* What one command handler did: the results it sent on cmd.Reply, in order,
\* the pause flag it left, whether it invoked the stored cancel function,
\* whether it cleared the current pass, and the capture it goes on to run.
Effect(replies, pz, cancelled, clearPass, sat, dur) ==
  [replies |-> replies, paused |-> pz, cancelled |-> cancelled,
   clearPass |-> clearPass, sat |-> sat, dur |-> dur]

\* A payload json.Unmarshal accepts, and one it rejects (nil or not JSON).
Payload(id, dur) == [wellFormed |-> TRUE, norad_id |-> id, duration_seconds |-> dur]
Malformed == [wellFormed |-> FALSE, norad_id |-> 0, duration_seconds |-> 0]

\* handleTriggerCommand returning on an unknown catalog number without a reply.
handleTriggerCommand_SilentUnknown(cmd, pz) ==
  IF ~cmd.payload.wellFormed
    THEN Effect(<< Result(FALSE, "invalid payload") >>, pz, FALSE, FALSE, NoSat, 0)
  ELSE IF SatelliteByNoradID(cmd.payload.norad_id) = NoSat
    THEN Effect(<< >>, pz, FALSE, FALSE, NoSat, 0)
  ELSE Effect(<< Result(TRUE, "capture triggered") >>, pz, FALSE, FALSE,
              SatelliteByNoradID(cmd.payload.norad_id),
              cmd.payload.duration_seconds)

\* handleTriggerCommand replying only once Capture has returned.
handleTriggerCommand_ReplyAfterCapture(cmd, pz) ==
  IF ~cmd.payload.wellFormed
    THEN Effect(<< Result(FALSE, "invalid payload") >>, pz, FALSE, FALSE, NoSat, 0)
  ELSE IF SatelliteByNoradID(cmd.payload.norad_id) = NoSat
    THEN Effect(<< Result(FALSE, "unknown NORAD ID") >>, pz, FALSE, FALSE, NoSat, 0)
  ELSE Effect(<< >>, pz, FALSE, FALSE,
              SatelliteByNoradID(cmd.payload.norad_id),
              cmd.payload.duration_seconds)

\* Runner.handleTriggerCommand up to the call of Capture.
handleTriggerCommand(cmd, pz) ==
  IF ~cmd.payload.wellFormed
    THEN Effect(<< Result(FALSE, "invalid payload") >>, pz, FALSE, FALSE, NoSat, 0)
  ELSE IF SatelliteByNoradID(cmd.payload.norad_id) = NoSat
    THEN Effect(<< Result(FALSE, "unknown NORAD ID") >>, pz, FALSE, FALSE, NoSat, 0)
  ELSE Effect(<< Result(TRUE, "capture triggered") >>, pz, FALSE, FALSE,
              SatelliteByNoradID(cmd.payload.norad_id),
              cmd.payload.duration_seconds)

\* Runner.handleTLERefreshCommand; refreshOK is the outcome of ForceRefreshTLEs.
handleTLERefreshCommand(cmd, pz, refreshOK) ==
  IF ~refreshOK
    THEN Effect(<< Result(FALSE, "TLE refresh failed") >>, pz, FALSE, FALSE, NoSat, 0)
    ELSE Effect(<< Result(TRUE, "TLE data refreshed") >>, pz, FALSE, FALSE, NoSat, 0)

\* A pause command that flips the flag.
handlePauseCommand_Toggle(cmd, pz) ==
  Effect(<< Result(TRUE, "scheduler paused") >>, ~pz, FALSE, FALSE, NoSat, 0)

\* Runner.handlePauseCommand
handlePauseCommand(cmd, pz) ==
  IF pz
    THEN Effect(<< Result(TRUE, "scheduler already paused") >>, pz, FALSE, FALSE, NoSat, 0)
    ELSE Effect(<< Result(TRUE, "scheduler paused") >>, TRUE, FALSE, FALSE, NoSat, 0)

\* Runner.handleResumeCommand
handleResumeCommand(cmd, pz) ==
  IF ~pz
    THEN Effect(<< Result(TRUE, "scheduler already running") >>, pz, FALSE, FALSE, NoSat, 0)
    ELSE Effect(<< Result(TRUE, "scheduler resumed") >>, FALSE, FALSE, FALSE, NoSat, 0)

\* Runner.handleSkipCommand
handleSkipCommand(cmd, pz) ==
  Effect(<< Result(TRUE, "pass skipped, recomputing schedule") >>, pz, FALSE, TRUE, NoSat, 0)

\* Runner.handleCancelCommand; cancel is the stored captureCancel (non-nil).
handleCancelCommand(cmd, pz, cancel) ==
  IF ~cancel
    THEN Effect(<< Result(FALSE, "no capture in progress") >>, pz, FALSE, FALSE, NoSat, 0)
    ELSE Effect(<< Result(TRUE, "capture cancelled") >>, pz, TRUE, FALSE, NoSat, 0)

\* A command of unknown type taken for a pause.
handleCommand_UnknownPauses(cmd, pz, cancel, refreshOK) ==
  CASE cmd.type = "trigger"     -> handleTriggerCommand(cmd, pz)
    [] cmd.type = "tle_refresh" -> handleTLERefreshCommand(cmd, pz, refreshOK)
    [] cmd.type = "resume"      -> handleResumeCommand(cmd, pz)
    [] cmd.type = "skip"        -> handleSkipCommand(cmd, pz)
    [] cmd.type = "cancel"      -> handleCancelCommand(cmd, pz, cancel)
    [] OTHER -> handlePauseCommand(cmd, pz)

\* Runner.handleCommand
handleCommand(cmd, pz, cancel, refreshOK) ==
  CASE cmd.type = "trigger"     -> handleTriggerCommand(cmd, pz)
    [] cmd.type = "tle_refresh" -> handleTLERefreshCommand(cmd, pz, refreshOK)
    [] cmd.type = "pause"       -> handlePauseCommand(cmd, pz)
    [] cmd.type = "resume"      -> handleResumeCommand(cmd, pz)
    [] cmd.type = "skip"        -> handleSkipCommand(cmd, pz)
    [] cmd.type = "cancel"      -> handleCancelCommand(cmd, pz, cancel)
    [] OTHER -> Effect(<< Result(FALSE, "unknown command") >>, pz, FALSE, FALSE, NoSat, 0)

\* The commands the senders choose from: every type of handleCommand, a
\* trigger with a valid payload, with a malformed one and with a catalog
\* number that is not in the catalog, and a type handleCommand does not know.
NoPayload == Malformed
CmdInputs ==
  { [type |-> "trigger", payload |-> Payload(33591, 1)],
    [type |-> "trigger", payload |-> Malformed],
    [type |-> "trigger", payload |-> Payload(99999, 1)],
    [type |-> "tle_refresh", payload |-> NoPayload],
    [type |-> "pause", payload |-> NoPayload],
    [type |-> "resume", payload |-> NoPayload],
    [type |-> "skip", payload |-> NoPayload],
    [type |-> "cancel", payload |-> NoPayload],
    [type |-> "reboot", payload |-> NoPayload] }

CmdIds == 1..MaxCmds
\* The sender's view of one command: where it is ("unsent", "queued" on
\* Commands, "taken" by the scheduler, "done" once the sender has its reply),
\* how many results were sent on its Reply channel, and whether it is a
\* cancel command sent while the daemon was RECORDING with Capture running.
NoCmd == [st |-> "unsent", replies |-> 0, cancelInRecording |-> FALSE]

\* ------------------------------------------------------------------- Init
NoReq == [sat |-> "", aos |-> 0, los |-> 0]

\* NewHub: no client and empty channels; Hub.Run not yet in a fan-out.
InitSubs ==
  /\ clients = {}
  /\ register = << >>
  /\ unregister = << >>
  /\ hubPc = "select"
  /\ hubMsg = NoMsg
  /\ hubLeft = {}
  /\ hubTo = 0
  /\ subSt = [c \in Subs |-> "new"]
  /\ received = [c \in Subs |-> << >>]
  /\ nextMsg = 0
  /\ dropped = {}
  /\ dequeued = << >>
  /\ regAt = [c \in Subs |-> 0]
  /\ bcastAtReg = [c \in Subs |-> 0]
  /\ lostBySlow = {}

\* No cache file yet and no call of loadOrFetch in progress.
InitTle ==
  /\ cacheIno = 0
  /\ data = [i \in Inodes |-> << >>]
  /\ intent = [i \in Inodes |-> << >>]
  /\ aged = [i \in Inodes |-> FALSE]
  /\ nextIno = 0
  /\ calls = 0
  /\ fpc = [p \in Fetchers |-> "idle"]
  /\ fkind = [p \in Fetchers |-> ""]
  /\ fd = [p \in Fetchers |-> 0]
  /\ tmp = [p \in Fetchers |-> 0]
  /\ body = [p \in Fetchers |-> << >>]
  /\ res = [p \in Fetchers |-> NoRes]
  /\ startIno = [p \in Fetchers |-> 0]
  /\ disturbed = [p \in Fetchers |-> FALSE]

\* App.New, lines 80 and 85: an empty ring; nobody has emitted anything.
InitLog ==
  /\ logBuf = << >>
  /\ logBufMu = ""
  /\ ePc = [h \in Emitters |-> "idle"]
  /\ eEv = [h \in Emitters |-> NoEvent]
  /\ sent = << >>
  /\ returned = {}
  /\ appended = << >>
  /\ logsRead = << >>

\* The daemon has started with the configuration of version 0, built from
\* the defaults without a file; no request yet.
InitReload ==
  /\ cfg = Config(0)
  /\ configPath = ""
  /\ cfgMu = [writer |-> "", readers |-> {}]
  /\ files = [f \in Paths |-> IF f = "main.toml" THEN 1 ELSE 0]
  /\ edits = 0
  /\ hPc = [r \in Reloaders |-> "idle"]
  /\ hPath = [r \in Reloaders |-> ""]
  /\ hCfg = [r \in Reloaders |-> Config(0)]
  /\ hResp = [r \in Reloaders |-> ""]
  /\ gPc = [g \in Getters |-> "idle"]
  /\ gCfg = [g \in Getters |-> Config(0)]
  /\ gResult = [g \in Getters |-> Config(0)]
  /\ loaded = { [cfg |-> Config(0), path |-> configPath] }

\* ComputePasses has not been called.
InitPredict ==
  /\ pIn = NoPredictInput
  /\ pOut = NoPasses
  /\ tIn = << >>
  /\ tOut = NoParse

\* Capture has not been called; no output file.
InitCapture ==
  /\ cPc = "idle"
  /\ simulate = FALSE
  /\ capCtxDone = FALSE
  /\ radio = ""
  /\ fExists = FALSE
  /\ fLen = 0
  /\ riffSize = 0
  /\ dataSize = 0
  /\ bytesWritten = 0
  /\ fixFailed = FALSE
  /\ cRet = NoRet

\* No call of the scheduler in progress, no status read yet.
InitStatus ==
  /\ tCalls = << >>
  /\ tClear = FALSE
  /\ sPc = "idle"
  /\ sState = ""
  /\ statusResp = NoStatus

\* App.New: the zero stats, the mutex free.
InitStats ==
  /\ statMu = ""
  /\ wPc = "idle"
  /\ wSat = ""
  /\ rPc = "idle"
  /\ rTotal = 0
  /\ resp = NoResp
  /\ nCaptures = 0

InitCommon ==
  /\ InitLog
  /\ InitPredict
  /\ InitReload
  /\ InitCapture
  /\ InitStatus
  /\ pc = "boot"
  /\ sleepKind = ""
  /\ sleepStart = 0
  /\ upcoming = << >>
  /\ idx = 1
  /\ paused = FALSE
  /\ captureCancel = FALSE
  /\ captureCtxDone = FALSE
  /\ capKind = ""
  /\ req = NoReq
  /\ capErr = FALSE
  /\ Commands = << >>
  /\ cmds = [k \in CmdIds |-> NoCmd]
  /\ replyCh = [k \in CmdIds |-> << >>]
  /\ nextCmd = 0
  /\ ctxDone = FALSE
  /\ now = 0
  /\ state = "BOOTING"
  /\ currentPass = NoPass
  /\ captureStats = [total |-> 0, bySat |-> [n \in SatNames |-> 0]]
  /\ skipped = {}
  /\ broadcast = << >>
  /\ InitSubs
  /\ InitTle
  /\ InitStats

\* The state after construction; the binary embeds a non-empty TLE copy.
Init == InitCommon /\ embeddedTLE = TRUE

\* ------------------------------------------------------- scheduler actions
\* Run returning whenever a sleep ends early, shutdown or not.
AfterSleep_ReturnOnInterrupt(kind, result, done) ==
  CASE kind = "paused" -> IF result = "cancelled" THEN "returned" ELSE "loop"
    [] kind = "aos"    -> IF result = "completed" THEN "wait"
                          ELSE IF done THEN "returned" ELSE "loop"
    [] OTHER           -> IF result # "completed" THEN "returned" ELSE "loop"

\* Run going on with the wait for AOS after a command interrupted it.
AfterSleep_KeepWaiting(kind, result, done) ==
  CASE kind = "paused" -> IF result = "cancelled" THEN "returned" ELSE "loop"
    [] kind = "aos"    -> IF result = "cancelled" THEN "returned" ELSE "wait"
    [] OTHER           -> IF result # "completed" /\ done THEN "returned" ELSE "loop"

\* Where Run goes when sleepOrCommand (or waitForAOS) returns `result` at the
\* sleep point `kind`; `done` is ctx.Err() != nil at that moment.
AfterSleep(kind, result, done) ==
  CASE kind = "paused" -> IF result = "cancelled" THEN "returned" ELSE "loop"
    [] kind = "aos"    -> IF result = "completed" THEN "wait"
                          ELSE IF done THEN "returned" ELSE "loop"
    [] OTHER           -> IF result # "completed" /\ done THEN "returned" ELSE "loop"

\* Arm the timer of sleepOrCommand at the sleep point `kind`.
Sleep(kind) ==
  /\ pc' = "sleep"
  /\ sleepKind' = kind
  /\ sleepStart' = now

\* App.Run: transition("IDLE"), then start the scheduler goroutine.
AppRun ==
  /\ pc = "boot"
  /\ LET a == setState(state, currentPass, "IDLE")
     IN  state' = a.state /\ currentPass' = a.currentPass
  /\ pc' = "start"
  /\ UNCHANGED << sleepKind, sleepStart, upcoming, idx, paused, captureCancel,
                  captureCtxDone, capKind, req, capErr, skipped, cmdVars,
                  captureStats, hubVars, extVars, ctxDone, now >>

\* Run, lines 113-117: the "scheduler started" log.
RunStart ==
  /\ pc = "start"
  /\ pc' = "loop"
  /\ UNCHANGED << sleepKind, sleepStart, upcoming, idx, paused, captureCancel,
                  captureCtxDone, capKind, req, capErr, skipped, cmdVars,
                  appVars, hubVars, extVars, ctxDone, now >>

\* The head of the outer loop without the paused branch.
LoopHead_NoPausedBranch ==
  /\ pc = "loop"
  /\ pc' = IF ctxDone THEN "returned" ELSE "compute"
  /\ upcoming' = << >>
  /\ idx' = 1
  /\ UNCHANGED << sleepKind, sleepStart, state, currentPass, paused,
                  captureCancel, captureCtxDone, capKind, req, capErr, skipped,
                  cmdVars, captureStats, hubVars, extVars, ctxDone, now >>

\* The head of the outer loop without the check of ctx.Err().
LoopHead_NoCtxCheck ==
  /\ pc = "loop"
  /\ IF paused
       THEN /\ state' = setState(state, currentPass, "IDLE").state
            /\ currentPass' = NoPass
            /\ pc' = "sleep"
            /\ sleepKind' = "paused"
            /\ sleepStart' = now
       ELSE /\ pc' = "compute"
            /\ UNCHANGED << sleepKind, sleepStart, state, currentPass >>
  /\ upcoming' = << >>
  /\ idx' = 1
  /\ UNCHANGED << paused, captureCancel, captureCtxDone, capKind,
                  req, capErr, skipped, cmdVars, captureStats, hubVars, extVars,
                  ctxDone, now >>

\* Run, lines 119-138: the head of the outer loop and the paused branch.
\* The locals of the previous iteration (upcoming, the range index) are gone.
LoopHead ==
  /\ pc = "loop"
  /\ IF ctxDone
       THEN /\ pc' = "returned"
            /\ UNCHANGED << sleepKind, sleepStart, state, currentPass >>
     ELSE IF paused
       THEN /\ state' = setState(state, currentPass, "IDLE").state
            /\ currentPass' = NoPass
            /\ Sleep("paused")
     ELSE /\ pc' = "compute"
          /\ UNCHANGED << sleepKind, sleepStart, state, currentPass >>
  /\ upcoming' = << >>
  /\ idx' = 1
  /\ UNCHANGED << paused, captureCancel, captureCtxDone, capKind,
                  req, capErr, skipped, cmdVars, captureStats, hubVars, extVars,
                  ctxDone, now >>

\* Run, lines 140-179: ComputePasses fails, or returns the predicted passes,
\* of which the ones with AOS after now are kept.
Compute ==
  /\ pc = "compute"
  /\ \E failed \in BOOLEAN :
       IF failed
         THEN Sleep("err") /\ UNCHANGED << upcoming, idx >>
       ELSE IF Upcoming(PredictedPasses, now) = << >>
         THEN Sleep("nopass") /\ UNCHANGED << upcoming, idx >>
       ELSE /\ upcoming' = Upcoming(PredictedPasses, now)
            /\ idx' = 1
            /\ pc' = "iter"
            /\ UNCHANGED << sleepKind, sleepStart >>
  /\ UNCHANGED << paused, captureCancel, captureCtxDone, capKind, req, capErr,
                  skipped, cmdVars, appVars, hubVars, extVars, ctxDone, now >>

\* Run, lines 181-223: one turn of the inner loop up to the wait for AOS.
Iterate ==
  /\ pc = "iter"
  /\ IF idx > Len(upcoming)
       THEN pc' = "loop" /\ UNCHANGED << idx, state, currentPass >>
     ELSE IF ctxDone
       THEN pc' = "returned" /\ UNCHANGED << idx, state, currentPass >>
     ELSE IF now > upcoming[idx].aos
       THEN idx' = idx + 1 /\ UNCHANGED << pc, state, currentPass >>
     ELSE IF paused
       THEN pc' = "loop" /\ UNCHANGED << idx, state, currentPass >>
     ELSE /\ state' = setState(state, currentPass, "WAITING_FOR_PASS").state
          /\ currentPass' = PassInfo(upcoming[idx], "waiting")
          /\ pc' = "wait"
          /\ UNCHANGED idx
  /\ UNCHANGED << sleepKind, sleepStart, upcoming, paused, captureCancel,
                  captureCtxDone, capKind, req, capErr, skipped, cmdVars,
                  captureStats, hubVars, extVars, ctxDone, now >>

\* waitForAOS returning true one tick before AOS.
WaitForAOS_OneTickEarly ==
  /\ pc = "wait"
  /\ IF upcoming[idx].aos - now <= 1
       THEN /\ currentPass' = PassInfo(upcoming[idx], "recording")
            /\ req' = [sat |-> upcoming[idx].sat, aos |-> upcoming[idx].aos,
                       los |-> upcoming[idx].los]
            /\ capKind' = "scheduled"
            /\ captureCancel' = TRUE
            /\ captureCtxDone' = FALSE
            /\ pc' = "cap_begin"
            /\ UNCHANGED << sleepKind, sleepStart >>
       ELSE /\ Sleep("aos")
            /\ UNCHANGED << currentPass, req, capKind, captureCancel, captureCtxDone >>
  /\ UNCHANGED << upcoming, idx, paused, capErr, skipped, cmdVars, state,
                  captureStats, hubVars, extVars, ctxDone, now >>

\* waitForAOS, lines 342-359, and Run, lines 233-255 once AOS is reached:
\* the stage becomes "recording" and the cancel function is stored.
WaitForAOS ==
  /\ pc = "wait"
  /\ IF upcoming[idx].aos - now <= 0
       THEN /\ currentPass' = PassInfo(upcoming[idx], "recording")
            /\ req' = [sat |-> upcoming[idx].sat, aos |-> upcoming[idx].aos,
                       los |-> upcoming[idx].los]
            /\ capKind' = "scheduled"
            /\ captureCancel' = TRUE
            /\ captureCtxDone' = FALSE
            /\ pc' = "cap_begin"
            /\ UNCHANGED << sleepKind, sleepStart >>
       ELSE /\ Sleep("aos")
            /\ UNCHANGED << currentPass, req, capKind, captureCancel, captureCtxDone >>
  /\ UNCHANGED << upcoming, idx, paused, capErr, skipped, cmdVars, state,
                  captureStats, hubVars, extVars, ctxDone, now >>

\* sleepOrCommand, case <-ctx.Done(), and what Run does with sleepCancelled.
SleepCancelled ==
  /\ pc = "sleep"
  /\ ctxDone
  /\ pc' = AfterSleep(sleepKind, "cancelled", TRUE)
  /\ UNCHANGED << sleepKind, sleepStart, upcoming, idx, paused, captureCancel,
                  captureCtxDone, capKind, req, capErr, skipped, cmdVars,
                  appVars, hubVars, extVars, ctxDone, now >>

\* A timer armed at `start` has expired.
TimerExpired(start) == now > start \/ now = MaxTime

\* sleepOrCommand, case <-t.C, and what Run does with sleepCompleted.
SleepTimer ==
  /\ pc = "sleep"
  /\ TimerExpired(sleepStart)
  /\ pc' = AfterSleep(sleepKind, "completed", ctxDone)
  /\ UNCHANGED << sleepKind, sleepStart, upcoming, idx, paused, captureCancel,
                  captureCtxDone, capKind, req, capErr, skipped, cmdVars,
                  appVars, hubVars, extVars, ctxDone, now >>

\* The satellite of the pass a skip command is about: the one waitForAOS is
\* waiting for, if any.
WaitedPass == IF sleepKind = "aos" THEN { [sat |-> upcoming[idx].sat, aos |-> upcoming[idx].aos] } ELSE {}

\* sleepOrCommand, case cmd := <-r.Commands: the command is handled inline.
\* A trigger goes on to Capture; every other command returns
\* sleepInterrupted at once.
SleepCommand ==
  /\ pc = "sleep"
  /\ Commands # << >>
  /\ LET cmd == Head(Commands) IN
     \E refreshOK \in (IF cmd.type = "tle_refresh" THEN BOOLEAN ELSE {TRUE}) :
       LET e == handleCommand(cmd, paused, captureCancel, refreshOK) IN
       /\ Commands' = Tail(Commands)
       /\ replyCh' = [replyCh EXCEPT ![cmd.id] = @ \o e.replies]
       /\ cmds' = [cmds EXCEPT ![cmd.id].st = "taken",
                               ![cmd.id].replies = @ + Len(e.replies)]
       /\ paused' = e.paused
       /\ currentPass' = IF e.clearPass THEN NoPass ELSE currentPass
       /\ skipped' = IF cmd.type = "skip" THEN skipped \cup WaitedPass ELSE skipped
       /\ IF e.sat # NoSat
            THEN /\ captureCancel' = TRUE
                 /\ captureCtxDone' = FALSE
                 /\ capKind' = "triggered"
                 /\ req' = [sat |-> e.sat.Name, aos |-> now,
                            los |-> Min(now + e.dur, MaxTime)]
                 /\ pc' = "cap_begin"
            ELSE /\ captureCtxDone' = (captureCtxDone \/ e.cancelled)
                 /\ pc' = AfterSleep(sleepKind, "interrupted", ctxDone)
                 /\ UNCHANGED << captureCancel, capKind, req >>
  /\ UNCHANGED << sleepKind, sleepStart, upcoming, idx, capErr, nextCmd, state,
                  captureStats, hubVars, extVars, ctxDone, now >>

\* Capture, lines 53-77 and rtlCapture, lines 109-121: the state becomes
\* RECORDING; creating the file, writing the header or starting rtl_fm may
\* fail, and then Capture returns an error.
CaptureBegin ==
  /\ pc = "cap_begin"
  /\ LET a == setState(state, currentPass, "RECORDING")
     IN  state' = a.state /\ currentPass' = a.currentPass
  /\ \E failed \in BOOLEAN :
       /\ capErr' = failed
       /\ pc' = IF failed THEN "cap_ret" ELSE "capturing"
  /\ UNCHANGED << sleepKind, sleepStart, upcoming, idx, paused, captureCancel,
                  captureCtxDone, capKind, req, skipped, cmdVars, captureStats,
                  hubVars, extVars, ctxDone, now >>

\* losCtx of rtlCapture is done: the LOS deadline has passed, or the
\* capture's context or the process context is cancelled.
LosCtxDone == ctxDone \/ captureCtxDone \/ now >= req.los

\* streamWithProgress returns because losCtx is done (rtl_fm is killed).
CaptureDeadline ==
  /\ pc = "capturing"
  /\ LosCtxDone
  /\ pc' = "cap_ret"
  /\ UNCHANGED << sleepKind, sleepStart, upcoming, idx, paused, captureCancel,
                  captureCtxDone, capKind, req, capErr, skipped, cmdVars,
                  appVars, hubVars, extVars, ctxDone, now >>

\* streamWithProgress returns because rtl_fm's output ended or a read or
\* write failed: end of stream, not an error.
CaptureStreamEnds ==
  /\ pc = "capturing"
  /\ pc' = "cap_ret"
  /\ UNCHANGED << sleepKind, sleepStart, upcoming, idx, paused, captureCancel,
                  captureCtxDone, capKind, req, capErr, skipped, cmdVars,
                  appVars, hubVars, extVars, ctxDone, now >>

\* The callback called whenever Capture returns, error or not.
CallbackDue_OnError(err, statOK) == statOK

\* Run, lines 264-277 and handleTriggerCommand, lines 437-447: the capture
\* callback is called when Capture returned no error and the size of the
\* file could be read.
CallbackDue(err, statOK) == ~err /\ statOK

\* Run moving on to the next pass when a scheduled Capture returned an error.
CaptureReturn_ErrorSkipsDecoding ==
  /\ pc = "cap_ret"
  /\ captureCancel' = FALSE
  /\ \E statOK \in BOOLEAN :
       captureStats' = IF ~capErr /\ statOK
                         THEN onCaptureComplete(captureStats, req.sat)
                         ELSE captureStats
  /\ IF capKind = "scheduled"
       THEN IF capErr
              THEN /\ pc' = "iter"
                   /\ idx' = idx + 1
                   /\ UNCHANGED << state, currentPass, sleepStart >>
              ELSE /\ state' = setState(state, currentPass, "DECODING").state
                   /\ currentPass' = PassInfo(upcoming[idx], "decoding")
                   /\ pc' = "decode"
                   /\ sleepStart' = now
                   /\ UNCHANGED idx
       ELSE /\ LET a == setState(state, currentPass, "IDLE")
               IN  state' = a.state /\ currentPass' = a.currentPass
            /\ pc' = AfterSleep(sleepKind, "interrupted", ctxDone)
            /\ UNCHANGED << sleepStart, idx >>
  /\ capKind' = ""
  /\ req' = NoReq
  /\ capErr' = FALSE
  /\ UNCHANGED << sleepKind, upcoming, paused, captureCtxDone, skipped,
                  cmdVars, hubVars, extVars, ctxDone, now >>

\* Capture returning without the stored cancel function being cleared.
CaptureReturn_KeepsCancel ==
  /\ pc = "cap_ret"
  /\ UNCHANGED captureCancel
  /\ \E statOK \in BOOLEAN :
       captureStats' = IF CallbackDue(capErr, statOK)
                         THEN onCaptureComplete(captureStats, req.sat)
                         ELSE captureStats
  /\ IF capKind = "scheduled"
       THEN /\ state' = setState(state, currentPass, "DECODING").state
            /\ currentPass' = PassInfo(upcoming[idx], "decoding")
            /\ pc' = "decode"
            /\ sleepStart' = now
       ELSE /\ LET a == setState(state, currentPass, "IDLE")
               IN  state' = a.state /\ currentPass' = a.currentPass
            /\ pc' = AfterSleep(sleepKind, "interrupted", ctxDone)
            /\ UNCHANGED sleepStart
  /\ capKind' = ""
  /\ req' = NoReq
  /\ capErr' = FALSE
  /\ UNCHANGED << sleepKind, upcoming, idx, paused, captureCtxDone, skipped,
                  cmdVars, hubVars, extVars, ctxDone, now >>

\* Run, lines 258-289 and handleTriggerCommand, lines 431-449: Capture has
\* returned.  The cancel function is cleared and the callback notified; a
\* scheduled capture goes on to DECODING, a triggered one to IDLE and back
\* to the sleep point that dispatched it.
CaptureReturn ==
  /\ pc = "cap_ret"
  /\ captureCancel' = FALSE
  /\ \E statOK \in BOOLEAN :
       captureStats' = IF CallbackDue(capErr, statOK)
                         THEN onCaptureComplete(captureStats, req.sat)
                         ELSE captureStats
  /\ IF capKind = "scheduled"
       THEN /\ state' = setState(state, currentPass, "DECODING").state
            /\ currentPass' = PassInfo(upcoming[idx], "decoding")
            /\ pc' = "decode"
            /\ sleepStart' = now
       ELSE /\ LET a == setState(state, currentPass, "IDLE")
               IN  state' = a.state /\ currentPass' = a.currentPass
            /\ pc' = AfterSleep(sleepKind, "interrupted", ctxDone)
            /\ UNCHANGED sleepStart
  /\ capKind' = ""
  /\ req' = NoReq
  /\ capErr' = FALSE
  /\ UNCHANGED << sleepKind, upcoming, idx, paused, captureCtxDone, skipped,
                  cmdVars, hubVars, extVars, ctxDone, now >>

\* The decoding sleep reading Commands as sleepOrCommand does.
DecodeCancelled_OrCommand ==
  /\ pc = "decode"
  /\ \/ ctxDone /\ pc' = "returned" /\ UNCHANGED << idx, cmdVars >>
     \/ /\ Commands # << >>
        /\ Commands' = Tail(Commands)
        /\ replyCh' = [replyCh EXCEPT ![Head(Commands).id] = Append(@, Result(FALSE, ""))]
        /\ cmds' = [cmds EXCEPT ![Head(Commands).id].st = "taken",
                                ![Head(Commands).id].replies = @ + 1]
        /\ idx' = idx + 1
        /\ pc' = "iter"
        /\ UNCHANGED nextCmd
  /\ UNCHANGED << sleepKind, sleepStart, upcoming, paused, captureCancel,
                  captureCtxDone, capKind, req, capErr, skipped,
                  appVars, hubVars, extVars, ctxDone, now >>

\* sleepOrCancel in Run, line 295, case <-ctx.Done(): Run returns.
DecodeCancelled ==
  /\ pc = "decode"
  /\ ctxDone
  /\ pc' = "returned"
  /\ UNCHANGED << sleepKind, sleepStart, upcoming, idx, paused, captureCancel,
                  captureCtxDone, capKind, req, capErr, skipped, cmdVars,
                  appVars, hubVars, extVars, ctxDone, now >>

\* The decoding sleep ending without setState("IDLE").
DecodeTimer_NoIdle ==
  /\ pc = "decode"
  /\ TimerExpired(sleepStart)
  /\ currentPass' = NoPass
  /\ idx' = idx + 1
  /\ pc' = "iter"
  /\ UNCHANGED << sleepKind, sleepStart, upcoming, paused, captureCancel,
                  captureCtxDone, capKind, req, capErr, skipped, cmdVars, state,
                  captureStats, hubVars, extVars, ctxDone, now >>

\* sleepOrCancel in Run, line 295, case <-t.C, and lines 299-300.
DecodeTimer ==
  /\ pc = "decode"
  /\ TimerExpired(sleepStart)
  /\ state' = setState(state, NoPass, "IDLE").state
  /\ currentPass' = NoPass
  /\ idx' = idx + 1
  /\ pc' = "iter"
  /\ UNCHANGED << sleepKind, sleepStart, upcoming, paused, captureCancel,
                  captureCtxDone, capKind, req, capErr, skipped, cmdVars,
                  captureStats, hubVars, extVars, ctxDone, now >>

\* ----------------------------------------------------------- environment
\* App.sendSchedulerCommand, lines 605-610: a fresh Reply channel and a
\* blocking send on Commands.
Send ==
  /\ pc # "boot"
  /\ nextCmd < MaxCmds
  /\ Len(Commands) < CommandsCap
  /\ \E c \in CmdInputs :
       /\ Commands' = Append(Commands, [id |-> nextCmd + 1, type |-> c.type,
                                        payload |-> c.payload])
       /\ cmds' = [cmds EXCEPT ![nextCmd + 1] =
                     [st |-> "queued", replies |-> 0,
                      cancelInRecording |-> (/\ c.type = "cancel"
                                             /\ state = "RECORDING"
                                             /\ pc = "capturing")]]
  /\ nextCmd' = nextCmd + 1
  /\ UNCHANGED << schedVars, replyCh, appVars, hubVars, extVars, ctxDone, now >>

\* App.sendSchedulerCommand, line 611: return <-reply.
Receive ==
  /\ \E k \in CmdIds :
       /\ replyCh[k] # << >>
       /\ replyCh' = [replyCh EXCEPT ![k] = Tail(@)]
       /\ cmds' = [cmds EXCEPT ![k].st = "done", ![k].cancelInRecording = FALSE]
  /\ UNCHANGED << schedVars, Commands, nextCmd, appVars, hubVars, extVars, ctxDone, now >>

\* The process receives SIGINT or SIGTERM: NotifyContext cancels ctx.
Shutdown ==
  /\ ~ctxDone
  /\ ctxDone' = TRUE
  /\ UNCHANGED << schedVars, cmdVars, appVars, hubVars, extVars, now >>

\* Time passes.
Tick ==
  /\ now < MaxTime
  /\ now' = now + 1
  /\ UNCHANGED << schedVars, cmdVars, appVars, hubVars, extVars, ctxDone >>

Scheduler ==
  \/ AppRun \/ RunStart \/ LoopHead \/ Compute \/ Iterate \/ WaitForAOS
  \/ SleepCancelled \/ SleepTimer \/ SleepCommand
  \/ CaptureBegin \/ CaptureDeadline \/ CaptureReturn
  \/ DecodeCancelled \/ DecodeTimer

Next ==
  \/ AppRun \/ RunStart \/ LoopHead \/ Compute \/ Iterate \/ WaitForAOS
  \/ SleepCancelled \/ SleepTimer \/ SleepCommand
  \/ CaptureBegin \/ CaptureDeadline \/ CaptureStreamEnds \/ CaptureReturn
  \/ DecodeCancelled \/ DecodeTimer
  \/ Send \/ Receive \/ Shutdown \/ Tick

Spec == Init /\ [][Next]_vars

\* The scheduler goroutine keeps running and the clock keeps advancing.
FairSpec == Spec /\ WF_vars(Scheduler) /\ WF_vars(Tick)

\* sleepOrCommand's select picks among its ready cases at random, so a command
\* that is ready again and again is eventually taken.
FairCmdSpec == FairSpec /\ SF_vars(SleepCommand)

\* ------------------------------------------------ the hub and its producers
\* The arguments setState is called with in each state: App.Run calls
\* transition("IDLE") while BOOTING; Run calls setState("IDLE") when paused
\* and after decoding, setState("WAITING_FOR_PASS") before each wait and
\* setState("DECODING") after a scheduled capture; Capture calls
\* setState("RECORDING"); handleTriggerCommand calls setState("IDLE").
SetStateArgs(st) ==
  CASE st = "BOOTING"          -> {"IDLE"}
    [] st = "IDLE"             -> {"IDLE", "WAITING_FOR_PASS", "RECORDING"}
    [] st = "WAITING_FOR_PASS" -> {"IDLE", "WAITING_FOR_PASS", "RECORDING"}
    [] st = "RECORDING"        -> {"DECODING", "IDLE"}
    [] OTHER                   -> {"IDLE"}

\* App.transition called through setStateFromScheduler (or by App.Run).
HubSetState ==
  /\ \E newState \in SetStateArgs(state) :
       LET a == transition(state, currentPass, broadcast, newState) IN
       /\ state' = a.state
       /\ currentPass' = a.currentPass
       /\ broadcast' = a.broadcast
  /\ UNCHANGED << schedVars, cmdVars, captureStats, extVars, ctxDone, now >>

\* Any other producer (heartbeatLoop, the broadcast methods of the scheduler,
\* the capturer and the predictor) calls BroadcastJSON.
HubEmit ==
  /\ \E t \in OtherEventTypes : broadcast' = BroadcastJSON(broadcast, OtherEvent(t))
  /\ UNCHANGED << schedVars, cmdVars, appVars, extVars, ctxDone, now >>

\* Hub.Run, case msg := <-h.broadcast: the worker takes the head of the queue.
HubDeliver ==
  /\ broadcast # << >>
  /\ broadcast' = Tail(broadcast)
  /\ UNCHANGED << schedVars, cmdVars, appVars, extVars, ctxDone, now >>

NextHub == HubSetState \/ HubEmit \/ HubDeliver

SpecHub == Init /\ [][NextHub]_vars

\* ------------------------------------------------- the hub's subscribers
\* make(chan *websocket.Conn, 16), for register and for unregister.
RegisterCap == 16

\* A receive from the broadcast channel: the oldest message.
Dequeue_Newest(q) == [msg |-> q[Len(q)], rest |-> SubSeq(q, 1, Len(q) - 1)]

\* Hub.Run, case msg := <-h.broadcast.
Dequeue(q) == [msg |-> Head(q), rest |-> Tail(q)]

\* The range loop given up at the first failed write.
AfterWriteError_Break(left, c) == {}

\* Hub.Run, lines 68-74: a failed write deletes the client and the range
\* loop goes on with the others.
AfterWriteError(left, c) == left \ {c}

\* Handler: the upgraded connection is sent on register.
SubConnect ==
  \E c \in Subs :
    /\ subSt[c] = "new"
    /\ Len(register) < RegisterCap
    /\ subSt' = [subSt EXCEPT ![c] = "open"]
    /\ register' = Append(register, c)
    /\ UNCHANGED << schedVars, cmdVars, appVars, hubVars, tleVars, statVars, moreVars,
                    clients, unregister, hubPc, hubMsg, hubLeft, hubTo,
                    received, nextMsg, dropped, dequeued, regAt, bcastAtReg,
                    lostBySlow, ctxDone, now >>

\* The peer closes the connection.
SubDisconnect ==
  \E c \in Subs :
    /\ subSt[c] = "open"
    /\ subSt' = [subSt EXCEPT ![c] = "closed"]
    /\ UNCHANGED << schedVars, cmdVars, appVars, hubVars, tleVars, statVars, moreVars,
                    clients, register, unregister, hubPc, hubMsg, hubLeft,
                    hubTo, received, nextMsg, dropped, dequeued, regAt,
                    bcastAtReg, lostBySlow, ctxDone, now >>

\* Handler's reader goroutine: ReadMessage fails on the closed connection
\* and the deferred function sends it on unregister.
SubReaderExit ==
  \E c \in Subs :
    /\ subSt[c] = "closed"
    /\ Len(unregister) < RegisterCap
    /\ subSt' = [subSt EXCEPT ![c] = "left"]
    /\ unregister' = Append(unregister, c)
    /\ UNCHANGED << schedVars, cmdVars, appVars, hubVars, tleVars, statVars, moreVars,
                    clients, register, hubPc, hubMsg, hubLeft, hubTo,
                    received, nextMsg, dropped, dequeued, regAt, bcastAtReg,
                    lostBySlow, ctxDone, now >>

\* c.Close() by the hub: the connection is closed unless it already is.
Closed(st, cs) ==
  [c \in Subs |-> IF c \in cs /\ st[c] = "open" THEN "closed" ELSE st[c]]

\* A producer calls BroadcastJSON; a message discarded while the worker is
\* inside the write to the slow connection is lost to the clients registered
\* at that moment.
SubsBroadcast ==
  /\ nextMsg < MaxMsgs
  /\ nextMsg' = nextMsg + 1
  /\ broadcast' = BroadcastJSON(broadcast, Message(nextMsg + 1))
  /\ IF broadcast' = broadcast
       THEN /\ dropped' = dropped \cup {nextMsg + 1}
            /\ lostBySlow' = IF hubPc = "write"
                               THEN lostBySlow \cup (clients \ {hubTo})
                               ELSE lostBySlow
       ELSE UNCHANGED << dropped, lostBySlow >>
  /\ UNCHANGED << schedVars, cmdVars, appVars, tleVars, statVars, moreVars, clients,
                  register, unregister, hubPc, hubMsg, hubLeft, hubTo, subSt,
                  received, dequeued, regAt, bcastAtReg, ctxDone, now >>

\* Hub.Run, case c := <-h.register.
HubRegister ==
  /\ hubPc = "select"
  /\ register # << >>
  /\ clients' = clients \cup {Head(register)}
  /\ register' = Tail(register)
  /\ regAt' = [regAt EXCEPT ![Head(register)] = Len(dequeued)]
  /\ bcastAtReg' = [bcastAtReg EXCEPT ![Head(register)] = nextMsg]
  /\ UNCHANGED << schedVars, cmdVars, appVars, hubVars, tleVars, statVars, moreVars,
                  unregister, hubPc, hubMsg, hubLeft, hubTo, subSt, received,
                  nextMsg, dropped, dequeued, lostBySlow, ctxDone, now >>

\* Hub.Run, case c := <-h.unregister.
HubUnregister ==
  /\ hubPc = "select"
  /\ unregister # << >>
  /\ clients' = clients \ {Head(unregister)}
  /\ unregister' = Tail(unregister)
  /\ subSt' = Closed(subSt, {Head(unregister)})
  /\ UNCHANGED << schedVars, cmdVars, appVars, hubVars, tleVars, statVars, moreVars,
                  register, hubPc, hubMsg, hubLeft, hubTo, received, nextMsg,
                  dropped, dequeued, regAt, bcastAtReg, lostBySlow, ctxDone,
                  now >>

\* Hub.Run, case msg := <-h.broadcast: the range over h.clients begins.
HubTake ==
  /\ hubPc = "select"
  /\ broadcast # << >>
  /\ hubMsg' = Dequeue(broadcast).msg
  /\ broadcast' = Dequeue(broadcast).rest
  /\ dequeued' = Append(dequeued, Dequeue(broadcast).msg)
  /\ hubLeft' = clients
  /\ hubPc' = "range"
  /\ UNCHANGED << schedVars, cmdVars, appVars, tleVars, statVars, moreVars, clients,
                  register, unregister, hubTo, subSt, received, nextMsg,
                  dropped, regAt, bcastAtReg, lostBySlow, ctxDone, now >>

\* Hub.Run, lines 68-75: one turn of the range loop.  The write to a closed
\* connection fails at once, the write to the slow connection blocks until
\* it goes through or the 3 s deadline expires, any other write succeeds.
HubWrite ==
  /\ hubPc = "range"
  /\ IF hubLeft = {}
       THEN /\ hubPc' = "select"
            /\ hubMsg' = NoMsg
            /\ UNCHANGED << clients, hubLeft, hubTo, subSt, received >>
       ELSE \E c \in hubLeft :
              IF subSt[c] # "open"
                THEN /\ clients' = clients \ {c}
                     /\ hubLeft' = AfterWriteError(hubLeft, c)
                     /\ UNCHANGED << hubPc, hubMsg, hubTo, subSt, received >>
              ELSE IF c = SlowSub
                THEN /\ hubPc' = "write"
                     /\ hubTo' = c
                     /\ UNCHANGED << clients, hubMsg, hubLeft, subSt, received >>
              ELSE /\ received' = [received EXCEPT ![c] = Append(@, hubMsg)]
                   /\ hubLeft' = hubLeft \ {c}
                   /\ UNCHANGED << clients, hubPc, hubMsg, hubTo, subSt >>
  /\ UNCHANGED << schedVars, cmdVars, appVars, hubVars, tleVars, statVars, moreVars,
                  register, unregister, nextMsg, dropped, dequeued, regAt,
                  bcastAtReg, lostBySlow, ctxDone, now >>

\* Hub.Run, lines 70-73: the blocked WriteMessage returns, with an error
\* when the deadline expired or the peer closed the connection.
HubWriteEnd ==
  /\ hubPc = "write"
  /\ \E failed \in BOOLEAN :
       /\ (subSt[hubTo] # "open") => failed
       /\ IF failed
            THEN /\ clients' = clients \ {hubTo}
                 /\ subSt' = Closed(subSt, {hubTo})
                 /\ hubLeft' = AfterWriteError(hubLeft, hubTo)
                 /\ UNCHANGED received
            ELSE /\ received' = [received EXCEPT ![hubTo] = Append(@, hubMsg)]
                 /\ hubLeft' = hubLeft \ {hubTo}
                 /\ UNCHANGED << clients, subSt >>
  /\ hubPc' = "range"
  /\ hubTo' = 0
  /\ UNCHANGED << schedVars, cmdVars, appVars, hubVars, tleVars, statVars, moreVars,
                  register, unregister, hubMsg, nextMsg, dropped, dequeued,
                  regAt, bcastAtReg, lostBySlow, ctxDone, now >>

\* Hub.Run, case <-ping.C: a client whose ping write fails is deleted and
\* closed; the ping to a closed connection fails, the ping to the slow one
\* may fail.
HubPing ==
  /\ hubPc = "select"
  /\ clients # {}
  /\ \E failing \in SUBSET clients :
       /\ \A c \in clients : subSt[c] # "open" => c \in failing
       /\ \A c \in failing : subSt[c] # "open" \/ c = SlowSub
       /\ failing # {}
       /\ clients' = clients \ failing
       /\ subSt' = Closed(subSt, failing)
  /\ UNCHANGED << schedVars, cmdVars, appVars, hubVars, tleVars, statVars, moreVars,
                  register, unregister, hubPc, hubMsg, hubLeft, hubTo,
                  received, nextMsg, dropped, dequeued, regAt, bcastAtReg,
                  lostBySlow, ctxDone, now >>

\* Hub.Run, case <-ctx.Done(): every client is closed and Run returns.
HubReturn ==
  /\ hubPc = "select"
  /\ ctxDone
  /\ hubPc' = "returned"
  /\ subSt' = Closed(subSt, clients)
  /\ UNCHANGED << schedVars, cmdVars, appVars, hubVars, tleVars, statVars, moreVars,
                  clients, register, unregister, hubMsg, hubLeft, hubTo,
                  received, nextMsg, dropped, dequeued, regAt, bcastAtReg,
                  lostBySlow, ctxDone, now >>

HubWorker ==
  \/ HubRegister \/ HubUnregister \/ HubTake \/ HubWrite \/ HubWriteEnd
  \/ HubPing \/ HubReturn

NextSubs ==
  \/ SubConnect \/ SubDisconnect \/ SubReaderExit \/ SubsBroadcast
  \/ HubWorker \/ Shutdown

SpecSubs == Init /\ [][NextSubs]_vars

\* ------------------------------------------------------ the TLE cache file
tleFile == << cacheIno, data, intent, aged, nextIno >>
tleProc == << fpc, fkind, fd, tmp, body, res, startIno, disturbed >>
notTle == << schedVars, cmdVars, appVars, hubVars, subVars, statVars, moreVars,
            ctxDone, now >>

Busy(p) == fpc[p] \notin {"idle", "done"}

\* The call returns.
Return(p, r) ==
  /\ fpc' = [fpc EXCEPT ![p] = "done"]
  /\ res' = [res EXCEPT ![p] = [r EXCEPT !.done = TRUE]]
  /\ fd' = [fd EXCEPT ![p] = 0]
  /\ tmp' = [tmp EXCEPT ![p] = 0]
  /\ body' = [body EXCEPT ![p] = << >>]

\* os.Remove of a temp file, or the last reference to a replaced file going
\* away: the inodes in `gone` no longer exist.
Forget(f, gone, empty) == [i \in Inodes |-> IF i \in gone THEN empty ELSE f[i]]

ForgetFiles(gone) ==
  /\ data' = Forget(data, gone, << >>)
  /\ intent' = Forget(intent, gone, << >>)
  /\ aged' = Forget(aged, gone, FALSE)

\* The inodes nobody can reach any more once `p` lets go of inode `i`: `i`
\* itself, unless it is the file at `cache` or another caller has it open or
\* is still writing it.
Unreachable(i, p, cache) ==
  IF i = 0 \/ i = cache
     \/ \E q \in Fetchers \ {p} : fd[q] = i \/ tmp[q] = i
    THEN {} ELSE {i}

\* loadOrFetch, lines 60-67: with no fresh non-empty file the network is
\* tried next.
AfterFreshMiss == "net"

\* The cache file created in place: os.Create(cachePath).
CreateTemp_InPlace(cache, ino) == ino

\* writeCache, line 116: os.CreateTemp makes a sibling file; the file at
\* cachePath is not touched.
CreateTemp(cache, ino) == cache

\* Fetch: a caller enters loadOrFetch.
FetchStart ==
  \E p \in Fetchers :
    /\ ~Busy(p)
    /\ calls < MaxCalls
    /\ calls' = calls + 1
    /\ fpc' = [fpc EXCEPT ![p] = "stat"]
    /\ fkind' = [fkind EXCEPT ![p] = "fetch"]
    /\ res' = [res EXCEPT ![p] = [NoRes EXCEPT !.call = calls + 1]]
    /\ startIno' = [startIno EXCEPT ![p] =
                      IF cacheIno # 0 /\ ~aged[cacheIno] THEN cacheIno ELSE 0]
    /\ disturbed' = [disturbed EXCEPT ![p] = FALSE]
    /\ UNCHANGED << notTle, tleFile, embeddedTLE, fd, tmp, body >>

\* force_refresh: tier 1 is skipped, the call starts at the network tier.
ForceRefreshStart ==
  \E p \in Fetchers :
    /\ ~Busy(p)
    /\ calls < MaxCalls
    /\ calls' = calls + 1
    /\ fpc' = [fpc EXCEPT ![p] = "net"]
    /\ fkind' = [fkind EXCEPT ![p] = "force"]
    /\ res' = [res EXCEPT ![p] = [NoRes EXCEPT !.call = calls + 1]]
    /\ startIno' = [startIno EXCEPT ![p] = 0]
    /\ disturbed' = [disturbed EXCEPT ![p] = FALSE]
    /\ UNCHANGED << notTle, tleFile, embeddedTLE, fd, tmp, body >>

\* force_refresh: without a network success nothing is updated and the call
\* fails.
ForceRefreshFail ==
  \E p \in Fetchers :
    /\ fpc[p] = "net"
    /\ fkind[p] = "force"
    /\ Return(p, [res[p] EXCEPT !.net = TRUE, !.err = TRUE])
    /\ UNCHANGED << notTle, tleFile, embeddedTLE, calls, fkind, startIno,
                    disturbed >>

\* loadOrFetch, lines 59-60: os.Stat and the age test.
Stat ==
  \E p \in Fetchers :
    /\ fpc[p] = "stat"
    /\ fpc' = [fpc EXCEPT ![p] = IF cacheIno # 0 /\ ~aged[cacheIno]
                                    THEN "t1open" ELSE AfterFreshMiss]
    /\ UNCHANGED << notTle, tleFile, embeddedTLE, calls, fkind, fd, tmp, body,
                    res, startIno, disturbed >>

\* os.ReadFile, lines 61 and 75: the file at cachePath is opened.
Open ==
  \E p \in Fetchers :
    /\ fpc[p] \in {"t1open", "t3open"}
    /\ fd' = [fd EXCEPT ![p] = cacheIno]
    /\ fpc' = [fpc EXCEPT ![p] =
                 IF cacheIno = 0
                   THEN (IF fpc[p] = "t1open" THEN AfterFreshMiss ELSE "t4")
                   ELSE (IF fpc[p] = "t1open" THEN "t1read" ELSE "t3read")]
    /\ UNCHANGED << notTle, tleFile, embeddedTLE, calls, fkind, tmp, body, res,
                    startIno, disturbed >>

\* loadOrFetch, lines 61-63: the fresh file is read; non-empty, it is the
\* result.
ReadFresh ==
  \E p \in Fetchers :
    /\ fpc[p] = "t1read"
    /\ IF data[fd[p]] # << >>
         THEN Return(p, [res[p] EXCEPT !.content = data[fd[p]], !.tier = 1,
                                       !.fresh = TRUE])
         ELSE /\ fpc' = [fpc EXCEPT ![p] = AfterFreshMiss]
              /\ fd' = [fd EXCEPT ![p] = 0]
              /\ UNCHANGED << tmp, body, res >>
    /\ ForgetFiles(Unreachable(fd[p], p, cacheIno))
    /\ UNCHANGED << notTle, cacheIno, nextIno, embeddedTLE, calls, fkind,
                    startIno, disturbed >>

\* fetchFromNetwork, lines 89-106, and loadOrFetch, lines 67-68: a transport
\* error, a status other than 200 or a failed read of the body is an error;
\* a 200 response yields its body, whatever its length.
NetFetch ==
  \E p \in Fetchers :
    /\ fpc[p] = "net"
    /\ \/ /\ fkind[p] = "fetch"
          /\ fpc' = [fpc EXCEPT ![p] = "t3open"]
          /\ res' = [res EXCEPT ![p].net = TRUE]
          /\ UNCHANGED body
       \/ \E b \in Bodies(res[p].call) :
            /\ body' = [body EXCEPT ![p] = b]
            /\ fpc' = [fpc EXCEPT ![p] = "mktemp"]
            /\ res' = [res EXCEPT ![p].net = TRUE, ![p].netOK = TRUE]
    /\ UNCHANGED << notTle, tleFile, embeddedTLE, calls, fkind, fd, tmp,
                    startIno, disturbed >>

\* The network tier's result: the body, whether writeCache worked or not
\* (loadOrFetch, lines 69-71).
NetResult(p) == [res[p] EXCEPT !.content = body[p], !.tier = 2]

\* writeCache, lines 111-119: MkdirAll and CreateTemp.
MkTemp ==
  \E p \in Fetchers :
    /\ fpc[p] = "mktemp"
    /\ \/ /\ Return(p, NetResult(p))
          /\ UNCHANGED tleFile
       \/ /\ nextIno' = nextIno + 1
          /\ tmp' = [tmp EXCEPT ![p] = nextIno + 1]
          /\ intent' = [intent EXCEPT ![nextIno + 1] = body[p]]
          /\ cacheIno' = CreateTemp(cacheIno, nextIno + 1)
          /\ fpc' = [fpc EXCEPT ![p] = "write"]
          /\ UNCHANGED << data, aged, fd, body, res >>
    /\ UNCHANGED << notTle, embeddedTLE, calls, fkind, startIno, disturbed >>

\* writeCache, lines 121-125: WriteString puts the data into the temp file
\* chunk after chunk, or fails and the temp file is removed.
WriteChunk ==
  \E p \in Fetchers :
    /\ fpc[p] = "write"
    /\ IF Len(data[tmp[p]]) = Len(body[p])
         THEN /\ fpc' = [fpc EXCEPT ![p] = "close"]
              /\ UNCHANGED << data, intent, aged, fd, tmp, body, res >>
         ELSE \/ /\ data' = [data EXCEPT ![tmp[p]] =
                                Append(@, body[p][Len(@) + 1])]
                 /\ UNCHANGED << intent, aged, fpc, fd, tmp, body, res >>
              \/ /\ Return(p, NetResult(p))
                 /\ ForgetFiles({tmp[p]})
    /\ UNCHANGED << notTle, cacheIno, nextIno, embeddedTLE, calls, fkind,
                    startIno, disturbed >>

\* writeCache, lines 126-129: Close, or its failure and the removal.
Close ==
  \E p \in Fetchers :
    /\ fpc[p] = "close"
    /\ \/ /\ fpc' = [fpc EXCEPT ![p] = "rename"]
          /\ UNCHANGED << data, intent, aged, fd, tmp, body, res >>
       \/ /\ Return(p, NetResult(p))
          /\ ForgetFiles({tmp[p]})
    /\ UNCHANGED << notTle, cacheIno, nextIno, embeddedTLE, calls, fkind,
                    startIno, disturbed >>

\* writeCache, line 131: os.Rename puts the finished temp file at cachePath
\* in one step, or fails.
Rename ==
  \E p \in Fetchers :
    /\ fpc[p] = "rename"
    /\ \/ /\ cacheIno' = tmp[p]
          /\ ForgetFiles(Unreachable(cacheIno, p, tmp[p]))
          /\ disturbed' = [q \in Fetchers |-> disturbed[q] \/ q # p]
       \/ UNCHANGED << cacheIno, data, intent, aged, disturbed >>
    /\ Return(p, NetResult(p))
    /\ UNCHANGED << notTle, nextIno, embeddedTLE, calls, fkind, startIno >>

\* loadOrFetch, lines 75-77: the file is read whatever its age; non-empty,
\* it is the result.
ReadStale ==
  \E p \in Fetchers :
    /\ fpc[p] = "t3read"
    /\ IF data[fd[p]] # << >>
         THEN Return(p, [res[p] EXCEPT !.content = data[fd[p]], !.tier = 3,
                                       !.stale = TRUE])
         ELSE /\ fpc' = [fpc EXCEPT ![p] = "t4"]
              /\ fd' = [fd EXCEPT ![p] = 0]
              /\ UNCHANGED << tmp, body, res >>
    /\ ForgetFiles(Unreachable(fd[p], p, cacheIno))
    /\ UNCHANGED << notTle, cacheIno, nextIno, embeddedTLE, calls, fkind,
                    startIno, disturbed >>

\* loadOrFetch, lines 80-84: the embedded copy, or the error.
EmbeddedOrError ==
  \E p \in Fetchers :
    /\ fpc[p] = "t4"
    /\ IF embeddedTLE
         THEN Return(p, [res[p] EXCEPT !.content = Embedded, !.tier = 4])
         ELSE Return(p, [res[p] EXCEPT !.err = TRUE])
    /\ UNCHANGED << notTle, tleFile, embeddedTLE, calls, fkind, startIno,
                    disturbed >>

\* Time passes: every existing file becomes older than maxAge.
Age ==
  /\ \E i \in 1..nextIno : ~aged[i]
  /\ aged' = [i \in Inodes |-> i <= nextIno]
  /\ disturbed' = [q \in Fetchers |-> TRUE]
  /\ UNCHANGED << notTle, cacheIno, data, intent, nextIno, embeddedTLE, calls,
                  fpc, fkind, fd, tmp, body, res, startIno >>

NextTle ==
  \/ FetchStart \/ ForceRefreshStart \/ ForceRefreshFail \/ Stat \/ Open
  \/ ReadFresh \/ NetFetch \/ MkTemp \/ WriteChunk \/ Close \/ Rename
  \/ ReadStale \/ EmbeddedOrError \/ Age

\* The embedded file is not part of the sources: it may be empty or not.
InitAnyEmbedded == InitCommon /\ embeddedTLE \in BOOLEAN

SpecTle == InitAnyEmbedded /\ [][NextTle]_vars

\* ------------------------------------------------- the capture statistics
notStats == << schedVars, cmdVars, state, currentPass, hubVars, subVars,
               tleVars, moreVars, ctxDone, now >>

RECURSIVE SumOver(_, _)
SumOver(m, keys) ==
  IF keys = {} THEN 0
  ELSE LET k == CHOOSE x \in keys : TRUE IN m[k] + SumOver(m, keys \ {k})

\* The sum of the values of a captures_by_satellite map.
SumBySat(m) == SumOver(m, SatNames)

\* The runtime is still running (no fatal error was thrown).
Alive == rPc # "crashed"

\* onCaptureComplete, line 233: mu.Lock().
WriterLock ==
  /\ Alive
  /\ wPc = "idle"
  /\ nCaptures < MaxCaptures
  /\ statMu = ""
  /\ \E sat \in SatNames : wSat' = sat
  /\ statMu' = "writer"
  /\ wPc' = "total"
  /\ nCaptures' = nCaptures + 1
  /\ UNCHANGED << notStats, captureStats, rPc, rTotal, resp >>

\* onCaptureComplete, line 235: TotalCaptures++.
WriterTotal ==
  /\ Alive
  /\ wPc = "total"
  /\ captureStats' = [captureStats EXCEPT !.total = @ + 1]
  /\ wPc' = "map"
  /\ UNCHANGED << notStats, statMu, wSat, rPc, rTotal, resp, nCaptures >>

\* onCaptureComplete, line 237: CapturesBySat[satellite]++.
WriterMap ==
  /\ Alive
  /\ wPc = "map"
  /\ captureStats' = [captureStats EXCEPT !.bySat[wSat] = @ + 1]
  /\ wPc' = "unlock"
  /\ UNCHANGED << notStats, statMu, wSat, rPc, rTotal, resp, nCaptures >>

\* onCaptureComplete, line 234: the deferred mu.Unlock().
WriterUnlock ==
  /\ Alive
  /\ wPc = "unlock"
  /\ statMu' = ""
  /\ wPc' = "idle"
  /\ wSat' = ""
  /\ UNCHANGED << notStats, captureStats, rPc, rTotal, resp, nCaptures >>

\* handleStats, lines 409-416: mu.Lock(); the response map takes a copy of
\* TotalCaptures and a reference to the CapturesBySat map.
ReaderLock ==
  /\ rPc = "idle"
  /\ statMu = ""
  /\ statMu' = "reader"
  /\ rTotal' = captureStats.total
  /\ rPc' = "locked"
  /\ UNCHANGED << notStats, captureStats, wPc, wSat, resp, nCaptures >>

\* handleStats, line 417: mu.Unlock().
ReaderUnlock ==
  /\ rPc = "locked"
  /\ statMu' = ""
  /\ rPc' = "encode"
  /\ UNCHANGED << notStats, captureStats, wPc, wSat, rTotal, resp, nCaptures >>

\* handleStats, line 420: Encode walks the live map without the lock. While
\* the writer is at its map update this is a data race: the reader gets the
\* value before or after the update, or the runtime stops the process with
\* "concurrent map iteration and map write".
ReaderEncode ==
  /\ rPc = "encode"
  /\ \/ /\ resp' = [total |-> rTotal, bySat |-> captureStats.bySat,
                    crashed |-> FALSE]
        /\ rPc' = "idle"
     \/ /\ wPc = "map"
        /\ \/ /\ resp' = [total |-> rTotal,
                          bySat |-> [captureStats.bySat EXCEPT ![wSat] = @ + 1],
                          crashed |-> FALSE]
              /\ rPc' = "idle"
           \/ /\ resp' = [NoResp EXCEPT !.crashed = TRUE]
              /\ rPc' = "crashed"
  /\ UNCHANGED << notStats, captureStats, statMu, wPc, wSat, rTotal, nCaptures >>

NextStats ==
  \/ WriterLock \/ WriterTotal \/ WriterMap \/ WriterUnlock
  \/ ReaderLock \/ ReaderUnlock \/ ReaderEncode

SpecStats == Init /\ [][NextStats]_vars

\* ------------------------------------------------------------ the log ring
notLog == << schedVars, cmdVars, appVars, subVars, tleVars, statVars,
             statusVars, capVars, reloadVars, predictVars, ctxDone, now >>

\* The components whose broadcast helper stamps and sends an event itself
\* (scheduler.go 530-534, part_003 269-273, predict.go 161-165).
Components == {"scheduler", "capture", "predict"}

\* The event types sent here: log records and one of the other types.
EventTypes == {"log", "progress"}

\* emit, lines 270-275: the buffered form of a log event.
logEntry(ev) == [id |-> ev.id, component |-> ev.component]

\* The newest entry dropped to make room.
Evict_Newest(buf) ==
  IF Len(buf) >= LogBufCap THEN SubSeq(buf, 1, Len(buf) - 1) ELSE buf

\* appendLog, lines 245-247: a full ring loses its oldest entry.
Evict(buf) == IF Len(buf) >= LogBufCap THEN Tail(buf) ELSE buf

\* Runner.broadcast and Predictor.broadcast: the event is stamped and handed
\* to the hub; nothing else is done with it.
RunnerBroadcast ==
  \E c \in Components, t \in EventTypes :
    LET ev == Event(Len(sent) + 1, t, c) IN
    /\ Len(sent) < MaxEvents
    /\ sent' = Append(sent, ev)
    /\ broadcast' = BroadcastJSON(broadcast, ev)
    /\ returned' = returned \cup {ev.id}
    /\ UNCHANGED << notLog, logBuf, logBufMu, ePc, eEv, appended, logsRead >>

\* App.emit, lines 260-267: the payload is stamped and handed to the hub;
\* an event of another type than `log` ends the call.
EmitBroadcast ==
  \E h \in Emitters, t \in EventTypes :
    LET ev == Event(Len(sent) + 1, t, "ephemerisd") IN
    /\ ePc[h] = "idle"
    /\ Len(sent) < MaxEvents
    /\ sent' = Append(sent, ev)
    /\ broadcast' = BroadcastJSON(broadcast, ev)
    /\ IF t = "log"
         THEN /\ ePc' = [ePc EXCEPT ![h] = "lock"]
              /\ eEv' = [eEv EXCEPT ![h] = ev]
              /\ UNCHANGED returned
         ELSE /\ returned' = returned \cup {ev.id}
              /\ UNCHANGED << ePc, eEv >>
    /\ UNCHANGED << notLog, logBuf, logBufMu, appended, logsRead >>

\* appendLog, line 243: logBufMu.Lock().
AppendLock ==
  \E h \in Emitters :
    /\ ePc[h] = "lock"
    /\ logBufMu = ""
    /\ logBufMu' = h
    /\ ePc' = [ePc EXCEPT ![h] = "evict"]
    /\ UNCHANGED << notLog, hubVars, logBuf, eEv, sent, returned, appended,
                    logsRead >>

\* appendLog, lines 245-247.
AppendEvict ==
  \E h \in Emitters :
    /\ ePc[h] = "evict"
    /\ logBuf' = Evict(logBuf)
    /\ ePc' = [ePc EXCEPT ![h] = "append"]
    /\ UNCHANGED << notLog, hubVars, logBufMu, eEv, sent, returned, appended,
                    logsRead >>

\* appendLog, line 248.
AppendEntry ==
  \E h \in Emitters :
    /\ ePc[h] = "append"
    /\ logBuf' = Append(logBuf, logEntry(eEv[h]))
    /\ appended' = Append(appended, logEntry(eEv[h]))
    /\ ePc' = [ePc EXCEPT ![h] = "unlock"]
    /\ UNCHANGED << notLog, hubVars, logBufMu, eEv, sent, returned, logsRead >>

\* appendLog, line 244: the deferred Unlock; emit returns.
AppendUnlock ==
  \E h \in Emitters :
    /\ ePc[h] = "unlock"
    /\ logBufMu' = ""
    /\ ePc' = [ePc EXCEPT ![h] = "idle"]
    /\ returned' = returned \cup {eEv[h].id}
    /\ eEv' = [eEv EXCEPT ![h] = NoEvent]
    /\ UNCHANGED << notLog, hubVars, logBuf, sent, appended, logsRead >>

\* The last n entries: handleLogs, lines 398-402 (a limit that is not a
\* positive number below the length is ignored).
Limit(entries, n) ==
  IF n > 0 /\ n < Len(entries)
    THEN SubSeq(entries, Len(entries) - n + 1, Len(entries))
    ELSE entries

\* handleLogs, lines 380-406: the ring is copied under the mutex, then cut
\* to the requested limit (the level filter is left out: entries carry no
\* level here).
handleLogs ==
  \E n \in 0..LogBufCap :
    /\ logBufMu = ""
    /\ logsRead' = Limit(logBuf, n)
    /\ UNCHANGED << notLog, hubVars, logBuf, logBufMu, ePc, eEv, sent, returned,
                    appended >>

NextLog ==
  \/ RunnerBroadcast \/ EmitBroadcast \/ AppendLock \/ AppendEvict
  \/ AppendEntry \/ AppendUnlock \/ handleLogs

SpecLog == Init /\ [][NextLog]_vars

\* ------------------------------------------------- the status and its reader
notStatus == << schedVars, cmdVars, captureStats, subVars, tleVars, statVars,
                logVars, capVars, reloadVars, predictVars, ctxDone, now >>

SetStateCall(newState) == [op |-> "setState", state |-> newState, info |-> NoPass]
NotifyCall(info) == [op |-> "notifyPass", state |-> "", info |-> info]

\* App.Run, line 147: the daemon leaves BOOTING.
BootCalls == << SetStateCall("IDLE") >>

\* Run, lines 196-300: a pass is waited for, recorded and decoded.
CycleCalls(p) ==
  << SetStateCall("WAITING_FOR_PASS"), NotifyCall(PassInfo(p, "waiting")),
     NotifyCall(PassInfo(p, "recording")), SetStateCall("RECORDING"),
     SetStateCall("DECODING"), NotifyCall(PassInfo(p, "decoding")),
     NotifyCall(NoPass), SetStateCall("IDLE") >>

\* Run, lines 196-198, then a pause during the wait and lines 126-127.
PausedCalls(p) ==
  << SetStateCall("WAITING_FOR_PASS"), NotifyCall(PassInfo(p, "waiting")),
     SetStateCall("IDLE"), NotifyCall(NoPass) >>

\* Run, lines 196-198, then a trigger during the wait: Capture sets
\* RECORDING and handleTriggerCommand, line 449, sets IDLE.
TriggerCalls(p) ==
  << SetStateCall("WAITING_FOR_PASS"), NotifyCall(PassInfo(p, "waiting")),
     SetStateCall("RECORDING"), SetStateCall("IDLE") >>

\* The scheduler begins its next round of calls.
RoundStart ==
  /\ tCalls = << >>
  /\ ~tClear
  /\ IF state = "BOOTING"
       THEN tCalls' = BootCalls
       ELSE \E i \in 1..Len(PredictedPasses) :
              tCalls' \in { CycleCalls(PredictedPasses[i]),
                            PausedCalls(PredictedPasses[i]),
                            TriggerCalls(PredictedPasses[i]) }
  /\ UNCHANGED << notStatus, state, currentPass, hubVars, tClear, sPc, sState,
                  statusResp >>

\* transition, lines 175-188: nothing on an unchanged state; otherwise the
\* state is stored and the state event broadcast.
TransitionStore ==
  /\ tCalls # << >>
  /\ ~tClear
  /\ Head(tCalls).op = "setState"
  /\ LET newState == Head(tCalls).state IN
       IF state = newState
         THEN /\ tCalls' = Tail(tCalls)
              /\ UNCHANGED << state, hubVars, tClear >>
         ELSE /\ state' = newState
              /\ broadcast' = BroadcastJSON(broadcast, StateEvent(state, newState))
              /\ IF newState = "IDLE"
                   THEN tClear' = TRUE /\ UNCHANGED tCalls
                   ELSE tCalls' = Tail(tCalls) /\ UNCHANGED tClear
  /\ UNCHANGED << notStatus, currentPass, sPc, sState, statusResp >>

\* transition, lines 191-193: the current pass is cleared on IDLE.
TransitionClear ==
  /\ tClear
  /\ currentPass' = NoPass
  /\ tClear' = FALSE
  /\ tCalls' = Tail(tCalls)
  /\ UNCHANGED << notStatus, state, hubVars, sPc, sState, statusResp >>

\* App.onPassUpdate: the current pass is stored.
NotifyPass ==
  /\ tCalls # << >>
  /\ Head(tCalls).op = "notifyPass"
  /\ currentPass' = Head(tCalls).info
  /\ tCalls' = Tail(tCalls)
  /\ UNCHANGED << notStatus, state, hubVars, tClear, sPc, sState, statusResp >>

\* handleStatus, line 40: the state is loaded.
StatusLoadState ==
  /\ sPc = "idle"
  /\ sState' = state
  /\ sPc' = "pass"
  /\ UNCHANGED << notStatus, state, currentPass, hubVars, tCalls, tClear,
                  statusResp >>

\* handleStatus, lines 54-70: the current pass is loaded and the response
\* written.
StatusLoadPass ==
  /\ sPc = "pass"
  /\ statusResp' = [state |-> sState, current_pass |-> currentPass]
  /\ sPc' = "idle"
  /\ sState' = ""
  /\ UNCHANGED << notStatus, state, currentPass, hubVars, tCalls, tClear >>

NextStatus ==
  \/ RoundStart \/ TransitionStore \/ TransitionClear \/ NotifyPass
  \/ StatusLoadState \/ StatusLoadPass

SpecStatus == Init /\ [][NextStatus]_vars

\* --------------------------------------------------- capture.Runner.Capture
notCapture == << schedVars, cmdVars, captureStats, subVars, tleVars, statVars,
                 logVars, statusVars, reloadVars, predictVars, ctxDone, now >>

\* The 44-byte canonical WAV header; the RIFF size counts the file after its
\* first 8 bytes.
HeaderLen == 44
RiffSkip == 8

\* Capture returns: the file is left as it is.
CaptureReturns(path, err) ==
  /\ cRet' = Ret(path, err)
  /\ cPc' = "done"

\* Capture, lines 53-67: RECORDING is set and the start of the capture logged.
\* The context may be cancelled before the call.
CaptureCall ==
  /\ cPc \in {"idle", "done"}
  /\ LET a == transition(state, currentPass, broadcast, "RECORDING") IN
       /\ state' = a.state
       /\ currentPass' = a.currentPass
       /\ broadcast' = BroadcastJSON(a.broadcast, OtherEvent("log"))
  /\ simulate' \in BOOLEAN
  /\ capCtxDone' \in BOOLEAN
  /\ radio' = ""
  /\ bytesWritten' = 0
  /\ fixFailed' = FALSE
  /\ cRet' = NoRet
  /\ cPc' = "create"
  /\ UNCHANGED << notCapture, fExists, fLen, riffSize, dataSize >>

\* The capture's context is cancelled, or LOS passes.
CaptureCancelled ==
  /\ cPc \notin {"idle", "done"}
  /\ ~capCtxDone
  /\ capCtxDone' = TRUE
  /\ UNCHANGED << notCapture, state, currentPass, hubVars, cPc, simulate, radio,
                  fExists, fLen, riffSize, dataSize, bytesWritten, fixFailed,
                  cRet >>

\* Capture, lines 69-72: os.Create truncates the file or fails.
CreateFile ==
  /\ cPc = "create"
  /\ \E ok \in BOOLEAN :
       IF ok
         THEN /\ fExists' = TRUE
              /\ fLen' = 0
              /\ cPc' = "header"
              /\ UNCHANGED cRet
         ELSE /\ CaptureReturns("", TRUE)
              /\ UNCHANGED << fExists, fLen >>
  /\ UNCHANGED << notCapture, state, currentPass, hubVars, simulate, capCtxDone,
                  radio, riffSize, dataSize, bytesWritten, fixFailed >>

\* writeWAVHeader: the sizes of the header for dataSize bytes of audio.
writeWAVHeader(size) ==
  [riffSize |-> Uint32(36 + size), dataSize |-> Uint32(size)]

\* Capture, lines 75-77: the placeholder header is written, or the write
\* fails and leaves a file without a header.
WriteHeader ==
  /\ cPc = "header"
  /\ \E ok \in BOOLEAN :
       IF ok
         THEN /\ fLen' = HeaderLen
              /\ riffSize' = writeWAVHeader(0).riffSize
              /\ dataSize' = writeWAVHeader(0).dataSize
              /\ cPc' = IF simulate THEN "sim" ELSE "start"
              /\ UNCHANGED cRet
         ELSE /\ CaptureReturns("", TRUE)
              /\ UNCHANGED << fLen, riffSize, dataSize >>
  /\ UNCHANGED << notCapture, state, currentPass, hubVars, simulate, capCtxDone,
                  radio, fExists, bytesWritten, fixFailed >>

\* rtlCapture, lines 108-121, and Capture, lines 84-87: rtl_fm is started.
\* Start fails when the binary is not found or cannot be run, and when the
\* context is already done; Capture then returns the error.
StartRadio ==
  /\ cPc = "start"
  /\ \E found \in BOOLEAN :
       IF found /\ ~capCtxDone
         THEN /\ radio' = "running"
              /\ cPc' = "stream"
              /\ UNCHANGED cRet
         ELSE /\ radio' = IF found THEN "" ELSE "missing"
              /\ CaptureReturns("", TRUE)
  /\ UNCHANGED << notCapture, state, currentPass, hubVars, simulate, capCtxDone,
                  fExists, fLen, riffSize, dataSize, bytesWritten, fixFailed >>

\* rtl_fm exits by itself during the pass: its pipe reports the end of the
\* stream.
RadioCrashes ==
  /\ cPc = "stream"
  /\ radio = "running"
  /\ radio' = "crashed"
  /\ UNCHANGED << notCapture, state, currentPass, hubVars, cPc, simulate,
                  capCtxDone, fExists, fLen, riffSize, dataSize, bytesWritten,
                  fixFailed, cRet >>

\* streamWithProgress, one round of the loop: stop when the context is done;
\* otherwise read, write what was read (nw bytes of n may be written when the
\* write fails) and stop on a failed write, the end of the stream or a failed
\* read. rtlCapture, lines 127-132: the process is killed and reaped.
StreamRound ==
  /\ cPc = "stream"
  /\ \/ /\ capCtxDone
        /\ cPc' = "fix"
        /\ radio' = IF radio = "running" THEN "killed" ELSE radio
        /\ UNCHANGED << fLen, bytesWritten >>
     \/ /\ ~capCtxDone
        /\ \E n \in 0..(MaxBytes - bytesWritten), readOK \in BOOLEAN :
           \E nw \in 0..n :
             /\ radio = "crashed" => n = 0 /\ ~readOK
             /\ n = 0 => ~readOK
             /\ fLen' = fLen + nw
             /\ bytesWritten' = bytesWritten + nw
             /\ IF nw < n \/ ~readOK
                  THEN /\ cPc' = "fix"
                       /\ radio' = IF radio = "running" THEN "killed" ELSE radio
                  ELSE UNCHANGED << cPc, radio >>
  /\ UNCHANGED << notCapture, state, currentPass, hubVars, simulate, capCtxDone,
                  fExists, riffSize, dataSize, fixFailed, cRet >>

\* simulateCapture, one round of the loop: stop when the context is done, when
\* a write fails, or when the whole pass has been written.
SimulateRound ==
  /\ cPc = "sim"
  /\ \/ /\ capCtxDone \/ bytesWritten = MaxBytes
        /\ cPc' = "fix"
        /\ UNCHANGED << fLen, bytesWritten >>
     \/ /\ ~capCtxDone
        /\ bytesWritten < MaxBytes
        /\ \E n \in 1..(MaxBytes - bytesWritten) :
           \E nw \in 0..n :
             /\ fLen' = fLen + nw
             /\ bytesWritten' = bytesWritten + nw
             /\ cPc' = IF nw < n THEN "fix" ELSE cPc
  /\ UNCHANGED << notCapture, state, currentPass, hubVars, simulate, capCtxDone,
                  radio, fExists, riffSize, dataSize, fixFailed, cRet >>

\* The steps of fixWAVHeader at which it may return an error, and "" for none.
FixFailures == {"", "stat", "seek4", "riff", "seek40", "data"}

\* fixWAVHeader: the size is read; a file shorter than the header is left
\* alone; the RIFF size is written at offset 4 and then the data size at
\* offset 40. A failing step returns its error and skips the rest.
fixWAVHeader(fileSize, riff, dsz, failure) ==
  IF failure = "stat"
    THEN [riffSize |-> riff, dataSize |-> dsz, err |-> TRUE]
  ELSE IF fileSize < HeaderLen
    THEN [riffSize |-> riff, dataSize |-> dsz, err |-> FALSE]
  ELSE IF failure \in {"seek4", "riff"}
    THEN [riffSize |-> riff, dataSize |-> dsz, err |-> TRUE]
  ELSE IF failure \in {"seek40", "data"}
    THEN [riffSize |-> Uint32(fileSize - RiffSkip), dataSize |-> dsz,
          err |-> TRUE]
  ELSE [riffSize |-> Uint32(fileSize - RiffSkip),
        dataSize |-> Uint32(fileSize - HeaderLen), err |-> FALSE]

\* Capture, lines 90-102: the header is patched when audio was written, a
\* failure of the patch is only logged, the end of the capture is logged and
\* the path returned.
FinishCapture ==
  /\ cPc = "fix"
  /\ \E failure \in FixFailures :
       LET h == IF bytesWritten > 0
                  THEN fixWAVHeader(fLen, riffSize, dataSize, failure)
                  ELSE [riffSize |-> riffSize, dataSize |-> dataSize,
                        err |-> FALSE] IN
         /\ bytesWritten = 0 => failure = ""
         /\ riffSize' = h.riffSize
         /\ dataSize' = h.dataSize
         /\ fixFailed' = h.err
  /\ broadcast' = BroadcastJSON(broadcast, OtherEvent("log"))
  /\ CaptureReturns("out.wav", FALSE)
  /\ UNCHANGED << notCapture, state, currentPass, simulate, capCtxDone, radio,
                  fExists, fLen, bytesWritten >>

NextCapture ==
  \/ CaptureCall \/ CaptureCancelled \/ CreateFile \/ WriteHeader
  \/ StartRadio \/ RadioCrashes \/ StreamRound \/ SimulateRound
  \/ FinishCapture

SpecCapture == Init /\ [][NextCapture]_vars

\* ------------------------------------------------------- App.handleReload
notReload == << schedVars, cmdVars, appVars, subVars, tleVars, statVars,
                statusVars, capVars, predictVars, ctxDone, now >>
notReloadLog == << logBufMu, ePc, eEv, sent, returned, appended, logsRead >>

\* The profiles a request may name: none, two with a file name in the
\* configuration directory, and one without.
Profiles == {"", "main", "palmdale", "nosuch"}
ProfilePath(profile) ==
  CASE profile = "main" -> "main.toml"
    [] profile = "palmdale" -> "palmdale.toml"
    [] OTHER -> "nosuch.toml"

\* What is found at a path.
FileAt(path) == IF path \in Paths THEN files[path] ELSE Missing

\* A configuration file is edited, removed or created.
EditFile ==
  /\ edits < MaxEdits
  /\ edits' = edits + 1
  /\ \E f \in Paths, c \in Contents :
       /\ files[f] # c
       /\ files' = [files EXCEPT ![f] = c]
  /\ UNCHANGED << notReload, hubVars, logVars, cfg, configPath, cfgMu, hPc,
                  hPath, hCfg, hResp, gPc, gCfg, gResult, loaded >>

\* handleReload, line 559: a.configPath is read without the lock. While
\* another request is about to store the path the read races with the store
\* and yields the old path, the new one, or a torn string.
ReadConfigPath(r) ==
  {configPath} \cup
  UNION { {hPath[w], "torn"} : w \in { x \in Reloaders \ {r} : hPc[x] = "path" } }

\* handleReload, lines 553-573: the path to load is the remembered one, or
\* the file of the profile named in the body when it exists. A profile
\* without a file is answered 404 and no path at all 500.
ReloadStart ==
  \E r \in Reloaders, profile \in Profiles :
  \E remembered \in ReadConfigPath(r) :
    LET loadPath == IF profile # "" THEN ProfilePath(profile) ELSE remembered IN
    /\ hPc[r] = "idle"
    /\ IF profile # "" /\ FileAt(ProfilePath(profile)) = Missing
         THEN /\ hResp' = [hResp EXCEPT ![r] = "profile not found"]
              /\ UNCHANGED << hPc, hPath >>
       ELSE IF loadPath = ""
         THEN /\ hResp' = [hResp EXCEPT ![r] = "no config file path set"]
              /\ UNCHANGED << hPc, hPath >>
       ELSE /\ hResp' = [hResp EXCEPT ![r] = ""]
            /\ hPath' = [hPath EXCEPT ![r] = loadPath]
            /\ hPc' = [hPc EXCEPT ![r] = "load"]
    /\ UNCHANGED << notReload, hubVars, logVars, cfg, configPath, cfgMu, files,
                    edits, hCfg, gPc, gCfg, gResult, loaded >>

\* config.Load: the file is read, parsed over the defaults and validated.
Load(path) ==
  IF FileAt(path) \in 1..MaxVersions
    THEN [cfg |-> Config(FileAt(path)), err |-> FALSE]
    ELSE [cfg |-> Config(0), err |-> TRUE]

\* handleReload, lines 575-579: a file that cannot be loaded is answered 500.
ReloadLoad ==
  \E r \in Reloaders :
    /\ hPc[r] = "load"
    /\ IF Load(hPath[r]).err
         THEN /\ hResp' = [hResp EXCEPT ![r] = "config reload failed"]
              /\ hPc' = [hPc EXCEPT ![r] = "idle"]
              /\ hPath' = [hPath EXCEPT ![r] = ""]
              /\ UNCHANGED << hCfg, loaded >>
         ELSE /\ hCfg' = [hCfg EXCEPT ![r] = Load(hPath[r]).cfg]
              /\ loaded' = loaded \cup { [cfg |-> Load(hPath[r]).cfg,
                                          path |-> hPath[r]] }
              /\ hPc' = [hPc EXCEPT ![r] = "lock"]
              /\ UNCHANGED << hResp, hPath >>
    /\ UNCHANGED << notReload, hubVars, logVars, cfg, configPath, cfgMu, files,
                    edits, gPc, gCfg, gResult >>

\* handleReload, line 581: cfgMu.Lock() waits for the writer and the readers.
ReloadLock ==
  \E r \in Reloaders :
    /\ hPc[r] = "lock"
    /\ cfgMu.writer = ""
    /\ cfgMu.readers = {}
    /\ cfgMu' = [cfgMu EXCEPT !.writer = r]
    /\ hPc' = [hPc EXCEPT ![r] = "root"]
    /\ UNCHANGED << notReload, hubVars, logVars, cfg, configPath, files, edits,
                    hPath, hCfg, hResp, gPc, gCfg, gResult, loaded >>

\* handleReload, lines 582-583: the struct is stored field by field, then
\* the path.
ReloadStore ==
  \E r \in Reloaders :
    /\ hPc[r] \in {"root", "rate", "path"}
    /\ CASE hPc[r] = "root" ->
              /\ cfg' = [cfg EXCEPT !.root = hCfg[r].root]
              /\ hPc' = [hPc EXCEPT ![r] = "rate"]
              /\ UNCHANGED configPath
         [] hPc[r] = "rate" ->
              /\ cfg' = [cfg EXCEPT !.rate = hCfg[r].rate]
              /\ hPc' = [hPc EXCEPT ![r] = "path"]
              /\ UNCHANGED configPath
         [] hPc[r] = "path" ->
              /\ configPath' = hPath[r]
              /\ hPc' = [hPc EXCEPT ![r] = "unlock"]
              /\ UNCHANGED cfg
    /\ UNCHANGED << notReload, hubVars, logVars, cfgMu, files, edits, hPath,
                    hCfg, hResp, gPc, gCfg, gResult, loaded >>

\* handleReload, lines 584-596: the lock is released, the reload logged
\* through emit (broadcast and log ring) and the request answered ok; its
\* locals are gone.
ReloadUnlock ==
  \E r \in Reloaders :
    /\ hPc[r] = "unlock"
    /\ cfgMu' = [cfgMu EXCEPT !.writer = ""]
    /\ broadcast' = BroadcastJSON(broadcast, OtherEvent("log"))
    /\ logBuf' = Append(Evict(logBuf), logEntry(Event(0, "log", "ephemerisd")))
    /\ hResp' = [hResp EXCEPT ![r] = "ok"]
    /\ hPc' = [hPc EXCEPT ![r] = "idle"]
    /\ hPath' = [hPath EXCEPT ![r] = ""]
    /\ hCfg' = [hCfg EXCEPT ![r] = Config(0)]
    /\ UNCHANGED << notReload, notReloadLog, cfg, configPath, files, edits,
                    gPc, gCfg, gResult, loaded >>

\* A read lock taken without regard to a writer.
RLockFree_IgnoresWriter(mu) == TRUE

\* RWMutex.RLock: granted when no writer holds the lock.
RLockFree(mu) == mu.writer = ""

\* getConfig, line 253: cfgMu.RLock().
GetRLock ==
  \E g \in Getters :
    /\ gPc[g] = "idle"
    /\ RLockFree(cfgMu)
    /\ cfgMu' = [cfgMu EXCEPT !.readers = @ \cup {g}]
    /\ gPc' = [gPc EXCEPT ![g] = "root"]
    /\ UNCHANGED << notReload, hubVars, logVars, cfg, configPath, files, edits,
                    hPc, hPath, hCfg, hResp, gCfg, gResult, loaded >>

\* getConfig, line 255: the struct is copied field by field.
GetCopy ==
  \E g \in Getters :
    /\ gPc[g] \in {"root", "rate"}
    /\ IF gPc[g] = "root"
         THEN /\ gCfg' = [gCfg EXCEPT ![g].root = cfg.root]
              /\ gPc' = [gPc EXCEPT ![g] = "rate"]
         ELSE /\ gCfg' = [gCfg EXCEPT ![g].rate = cfg.rate]
              /\ gPc' = [gPc EXCEPT ![g] = "unlock"]
    /\ UNCHANGED << notReload, hubVars, logVars, cfg, configPath, cfgMu, files,
                    edits, hPc, hPath, hCfg, hResp, gResult, loaded >>

\* getConfig, line 254: the deferred RUnlock; the copy is returned.
GetRUnlock ==
  \E g \in Getters :
    /\ gPc[g] = "unlock"
    /\ cfgMu' = [cfgMu EXCEPT !.readers = @ \ {g}]
    /\ gResult' = [gResult EXCEPT ![g] = gCfg[g]]
    /\ gPc' = [gPc EXCEPT ![g] = "idle"]
    /\ UNCHANGED << notReload, hubVars, logVars, cfg, configPath, files, edits,
                    hPc, hPath, hCfg, hResp, gCfg, loaded >>

NextReload ==
  \/ EditFile \/ ReloadStart \/ ReloadLoad \/ ReloadLock \/ ReloadStore
  \/ ReloadUnlock \/ GetRLock \/ GetCopy \/ GetRUnlock

SpecReload == Init /\ [][NextReload]_vars

\* ------------------------------------------------ Predictor.ComputePasses
notPredict == << schedVars, cmdVars, appVars, subVars, tleVars, statVars,
                 logVars, statusVars, capVars, reloadVars, ctxDone, now >>

\* One call of ComputePasses, lines 82-149: the station and the number of
\* passes found are logged, the passes or the error of Fetch returned. A
\* satellite without elements is not propagated.
ComputePassesCall ==
  /\ ~pOut.returned
  /\ \E fetchOK \in BOOLEAN, min \in MinElevations :
     \E raw \in [SatNames -> IF fetchOK
                               THEN GeneratePassesResults \cup { NoElements }
                               ELSE { NoElements }] :
    /\ pIn' = PredictInput(fetchOK, raw, min)
    /\ pOut' \in ComputePasses(pIn')
    /\ broadcast' =
         IF fetchOK
           THEN BroadcastJSON(BroadcastJSON(broadcast, OtherEvent("log")),
                              OtherEvent("log"))
           ELSE BroadcastJSON(broadcast, OtherEvent("log"))
    /\ UNCHANGED << notPredict, tIn, tOut >>

\* The caller has used the passes; the next call has not begun.
PassesConsumed ==
  /\ pOut.returned
  /\ pIn' = NoPredictInput
  /\ pOut' = NoPasses
  /\ UNCHANGED << notPredict, hubVars, tIn, tOut >>

\* One call of parseForNOAA with a text of at most MaxLines lines.
ParseCall ==
  /\ ~tOut.returned
  /\ \E n \in 0..MaxLines :
     \E raw \in [1..n -> TleLines] :
    /\ tIn' = raw
    /\ tOut' = parseForNOAA(raw)
    /\ UNCHANGED << notPredict, hubVars, pIn, pOut >>

\* loadOrFetch has used the map; the next call has not begun.
ParseConsumed ==
  /\ tOut.returned
  /\ tIn' = << >>
  /\ tOut' = NoParse
  /\ UNCHANGED << notPredict, hubVars, pIn, pOut >>

NextPredict == ComputePassesCall \/ PassesConsumed

NextParse == ParseCall \/ ParseConsumed

SpecParse == Init /\ [][NextParse]_vars

SpecPredict == Init /\ [][NextPredict]_vars

\* ------------------------------------------------------------ sanity
TypeOK ==
  /\ pc \in {"boot", "start", "loop", "compute", "iter", "wait", "sleep",
              "cap_begin", "capturing", "cap_ret", "decode", "returned"}
  /\ sleepKind \in {"", "paused", "err", "nopass", "aos"}
  /\ state \in DaemonStates
  /\ now \in 0..MaxTime
  /\ nextCmd \in 0..MaxCmds
  /\ Len(Commands) <= CommandsCap
  /\ Len(broadcast) <= BroadcastCap
  /\ paused \in BOOLEAN /\ captureCancel \in BOOLEAN /\ ctxDone \in BOOLEAN

\* Every change of state the scheduler makes is one SpecHub lets its callers make.
SetStateArgsCoverCalls == [][state' # state => state' \in SetStateArgs(state)]_vars

\* ------------------------------------------------------------------ claims

\* C1: every command the scheduler has dequeued has had exactly one result
\* sent on its Reply channel, and a command not yet dequeued has had none.
C1_ExactlyOneReply ==
  \A k \in CmdIds :
    /\ cmds[k].st \in {"taken", "done"} => cmds[k].replies = 1
    /\ cmds[k].st \in {"unsent", "queued"} => cmds[k].replies = 0
    /\ Len(replyCh[k]) <= cmds[k].replies

\* C1 witness: one command answered and received, a second one answered
\* with ok=false and still in its Reply channel.
C1_Witness ==
  /\ MaxCmds >= 2
  /\ cmds[1].st = "done"
  /\ cmds[2].st = "taken"
  /\ replyCh[2] = << Result(FALSE, "") >>

\* C2 (as claimed): a cancel command sent while the daemon is RECORDING and
\* Capture is running is dispatched while that capture is still running and
\* is answered ok=true.
C2_CancelDuringRecording ==
  \A k \in CmdIds :
    cmds[k].cancelInRecording =>
      /\ cmds[k].st = "queued" => pc \in {"capturing", "cap_ret"}
      /\ replyCh[k] # << >> => Head(replyCh[k]).ok

\* The stored cancel function is never invoked and no cancel command is
\* ever answered ok=true: Commands is read only by sleepOrCommand, where
\* captureCancel is nil.
CancelNeverHonoured ==
  /\ ~captureCtxDone
  /\ pc = "sleep" => ~captureCancel

\* C3 (as claimed): every change of DaemonState from S to T appends the
\* state event from=S, to=T to the broadcast queue, whatever its load.
C3_StateEventAlways ==
  [][state' # state => broadcast' = Append(broadcast, StateEvent(state, state'))]_vars

\* C3 (amended): a change of DaemonState from S to T appends exactly the one
\* state event from=S, to=T when the broadcast queue has room and leaves the
\* queue unchanged when it is full; a step that does not change the state
\* appends no state event.
C3_StateEventWhenRoom ==
  [][ /\ state' # state =>
           IF Len(broadcast) < BroadcastCap
             THEN broadcast' = Append(broadcast, StateEvent(state, state'))
             ELSE broadcast' = broadcast
      /\ state' = state =>
           ~ /\ Len(broadcast') > Len(broadcast)
             /\ broadcast'[Len(broadcast')].type = "state" ]_vars

\* C3 witness: a state event was appended behind another producer's event
\* and filled the queue.
C3_Witness ==
  /\ Len(broadcast) = BroadcastCap
  /\ broadcast[1].type # "state"
  /\ broadcast[BroadcastCap] = StateEvent("IDLE", "WAITING_FOR_PASS")
  /\ state = "WAITING_FOR_PASS"

\* C4: the step that starts a triggered capture sends the ok=true result on
\* the command's Reply channel, with Capture not yet called and the state
\* not yet RECORDING.
C4_TriggerReplyFirst ==
  [][ (capKind' = "triggered" /\ capKind # "triggered") =>
        /\ pc' = "cap_begin"
        /\ state' = state
        /\ state # "RECORDING"
        /\ \E k \in CmdIds :
             /\ cmds[k].st = "queued" /\ cmds'[k].st = "taken"
             /\ replyCh'[k] = Append(replyCh[k], Result(TRUE, ""))
             /\ cmds'[k].replies = 1 ]_vars

\* C4 witness: a trigger has been answered ok=true and Capture is about to
\* be called.
C4_Witness ==
  /\ capKind = "triggered"
  /\ pc = "cap_begin"
  /\ state # "RECORDING"
  /\ \E k \in CmdIds : cmds[k].st = "taken" /\ replyCh[k] = << Result(TRUE, "") >>

\* C5 (as claimed): while the pause flag is set, Capture is not running and
\* the state is not RECORDING.
C5_NoCaptureWhilePaused ==
  paused => (state # "RECORDING" /\ pc \notin {"capturing", "cap_ret"})

\* C5 (amended): while the pause flag is set no scheduled capture runs and
\* the scheduler waits for no pass; the state is RECORDING only for a trigger
\* command handled in between.
C5_NoScheduledCaptureWhilePaused ==
  paused =>
    /\ capKind # "scheduled"
    /\ pc \notin {"wait", "decode"}
    /\ ~(pc = "sleep" /\ sleepKind = "aos")
    /\ state = "RECORDING" => capKind = "triggered"

\* C5 witness: a triggered capture is recording while the pause flag is set.
C5_Witness == paused /\ state = "RECORDING" /\ capKind = "triggered"

\* C6: a pause handled during the wait for a pass ends the wait; the
\* scheduler then sets IDLE, clears the current pass and sleeps on the
\* command channel; compute_passes is never called while the pause flag is
\* set; after a resume the loop calls compute_passes again (unless the
\* shutdown signal is raised first).
C6_PauseDuringWait ==
  /\ [][ (pc = "sleep" /\ sleepKind = "aos" /\ ~paused /\ paused') =>
           pc' \in {"loop", "returned"} ]_vars
  /\ [](paused => pc # "compute")
  /\ (paused /\ pc = "loop" /\ state = "WAITING_FOR_PASS")
       ~> ((pc = "sleep" /\ sleepKind = "paused" /\ state = "IDLE"
             /\ currentPass = NoPass) \/ ctxDone)
  /\ (~paused /\ pc = "loop" /\ sleepKind = "paused")
       ~> (pc = "compute" \/ ctxDone)

\* C6 witness: the pause flag was just set by a command that interrupted the
\* wait for a pass.
C6_Witness ==
  paused /\ pc = "loop" /\ state = "WAITING_FOR_PASS" /\ ~ctxDone

\* C7 (as claimed): a pass for which a skip command was handled during its
\* wait is not tracked again.
C7_SkippedPassNotTrackedAgain ==
  \A p \in skipped : ~(currentPass.sat = p.sat /\ currentPass.aos = p.aos)

\* C8: a scheduled capture that reaches Capture is followed by DECODING,
\* whether Capture fails or not, and DECODING by IDLE unless the shutdown
\* signal is raised; the state leaves RECORDING of a scheduled capture only
\* for DECODING, and DECODING only for IDLE.
C8_DecodingThenIdle ==
  /\ (pc = "cap_begin" /\ capKind = "scheduled") ~> (state = "DECODING")
  /\ (state = "DECODING") ~> (state = "IDLE" \/ ctxDone)
  /\ [][ (state = "RECORDING" /\ capKind = "scheduled" /\ state' # state)
           => state' = "DECODING" ]_vars
  /\ [][ (state = "DECODING" /\ state' # state) => state' = "IDLE" ]_vars

\* C8 witness: a scheduled Capture has returned an error, with no shutdown.
C8_Witness ==
  pc = "cap_ret" /\ capKind = "scheduled" /\ capErr /\ state = "RECORDING" /\ ~ctxDone

C10_ShutdownReturns == ctxDone ~> (pc = "returned")

\* C10 witness: Run has returned after a shutdown that found it in a
\* scheduled capture or in the decoding sleep.
C10_Witness == ctxDone /\ pc = "returned" /\ state = "DECODING"

\* C11 (as claimed): every command placed on Commands is eventually answered,
\* shutdown or not.
C11_EveryCommandReplied ==
  \A k \in CmdIds : (cmds[k].st = "queued") ~> (cmds[k].replies = 1)

\* Every command placed on Commands is eventually answered unless the
\* shutdown signal is raised: Run returns on ctx.Done and nothing reads
\* Commands afterwards.
RepliedUnlessShutdown ==
  \A k \in CmdIds : (cmds[k].st = "queued") ~> (cmds[k].replies = 1 \/ ctxDone)

\* C12: Run has returned only if the shutdown signal was raised; no
\* prediction error, empty pass list, capture error or refused command makes
\* it return.
C12_ReturnsOnlyOnShutdown == pc = "returned" => ctxDone

\* C12 witness: a command was refused, then the prediction failed, and Run
\* is in its retry sleep with no shutdown raised.
C12_Witness ==
  /\ ~ctxDone
  /\ pc = "sleep"
  /\ sleepKind = "err"
  /\ \E k \in CmdIds : replyCh[k] = << Result(FALSE, "") >>

\* The messages the worker has written to a registered client so far, if
\* no write to it was skipped: those dequeued since its registration, less
\* the one in the fan-out that has not reached it yet.
Expected(c) ==
  SubSeq(dequeued, regAt[c] + 1,
         Len(dequeued) - (IF hubPc \in {"range", "write"} /\ c \in hubLeft
                            THEN 1 ELSE 0))

\* C13 (as claimed): no event is lost to the other registered subscribers
\* because of the slow one.
C13_NoEventLostToOthers == lostBySlow = {}

\* C13 (amended): a write to the slow subscriber that fails removes it, and
\* every registered subscriber has been written every message the worker
\* dequeued since its registration, in that order; messages discarded by
\* BroadcastJSON while the worker is held up reach nobody.
C13_AcceptedEventsReachOthers ==
  /\ [](\A c \in clients : received[c] = Expected(c))
  /\ [][ (hubPc = "write" /\ hubPc' = "range" /\ received' = received)
           => hubTo \notin clients' ]_vars

\* C13 witness: the slow subscriber was removed during the fan-out of the
\* second message, and the other one has been written both messages.
C13_Witness ==
  /\ MaxSubs >= 2
  /\ hubPc = "range"
  /\ hubMsg = Message(2)
  /\ SlowSub \notin clients
  /\ received[SlowSub] = << Message(1) >>
  /\ 2 \in clients
  /\ received[2] = << Message(1), Message(2) >>

\* The messages written to each subscriber are accepted ones, in the order
\* of their broadcast, none twice.
InBroadcastOrder ==
  \A c \in Subs :
    /\ \A i \in 1..Len(received[c]) :
         /\ received[c][i].ts \in 1..nextMsg
         /\ received[c][i].ts \notin dropped
    /\ \A i, j \in 1..Len(received[c]) :
         i < j => received[c][i].ts < received[c][j].ts

\* C14 (as claimed): per-subscriber FIFO, and a subscriber is written only
\* messages broadcast after its registration was processed.
C14_OnlyBroadcastAfterRegistration ==
  /\ InBroadcastOrder
  /\ \A c \in Subs : \A i \in 1..Len(received[c]) :
       received[c][i].ts > bcastAtReg[c]

\* C14 (amended): per-subscriber FIFO, and a subscriber is written only
\* messages the worker dequeued after its registration was processed; these
\* include messages that were already queued at that moment.
C14_OnlyDequeuedAfterRegistration ==
  /\ InBroadcastOrder
  /\ \A c \in Subs : \A i \in 1..Len(received[c]) :
       \E k \in (regAt[c] + 1)..Len(dequeued) : dequeued[k] = received[c][i]

\* C14 witness: a subscriber registered while a message was queued has been
\* written that message and a later one.
C14_Witness ==
  \E c \in Subs :
    /\ Len(received[c]) >= 2
    /\ received[c][1].ts <= bcastAtReg[c]
    /\ received[c][2].ts > bcastAtReg[c]

Complete(c) == \E n \in 0..MaxCalls : c \in Bodies(n)

\* C16: whatever the other callers are doing, the file a reader has opened at
\* the cache path holds the complete content of the one write that made it,
\* and what a disk tier returned is such a content: never a partly written
\* file, never parts of two writes.
C16_ReadsSeeCompleteWrites ==
  /\ \A p \in Fetchers :
       fpc[p] \in {"t1read", "t3read"} =>
         /\ fd[p] # 0
         /\ data[fd[p]] = intent[fd[p]]
         /\ Complete(data[fd[p]])
  /\ \A p \in Fetchers :
       res[p].done /\ res[p].tier \in {1, 3} => Complete(res[p].content)
  /\ cacheIno # 0 => data[cacheIno] = intent[cacheIno]

\* C16 witness: a caller reads the cache file while the other caller has
\* written half of its temp file.
C16_Witness ==
  \E p, q \in Fetchers :
    /\ p # q
    /\ fpc[p] \in {"t1read", "t3read"}
    /\ data[fd[p]] # << >>
    /\ fpc[q] = "write"
    /\ Len(data[tmp[q]]) = 1
    /\ Len(body[q]) = 2

\* C17: the network tier is the result of a call only with a non-empty body,
\* and no call puts an empty file at the cache path: after a 200 response
\* with an empty body the call goes on to the stale tier with the cache file
\* as it was.
C17_EmptyBodyIsNoSuccess ==
  /\ \A p \in Fetchers :
       res[p].done /\ res[p].tier = 2 => res[p].content # << >>
  /\ \A p \in Fetchers : fpc[p] \in {"mktemp", "write", "close", "rename"} =>
                           body[p] # << >>
  /\ cacheIno # 0 => intent[cacheIno] # << >>

\* The order of the tiers of a finished call `r`, with `netWon` telling
\* whether its network tier counts as succeeded: tier 1 without any request,
\* tier 2 only after a fresh miss, tier 3 only after the network failed,
\* tier 4 only after the network failed and no non-empty file was found, an
\* error exactly when nothing was found at all.
TierOrder(r, netWon) ==
  LET netFailed == r.net /\ ~netWon IN
  /\ r.tier = 1 <=> r.fresh
  /\ r.fresh => ~r.net
  /\ r.tier = 2 <=> ~r.fresh /\ netWon
  /\ r.tier = 3 <=> netFailed /\ r.stale
  /\ r.tier = 4 <=> netFailed /\ ~r.stale /\ embeddedTLE
  /\ r.err <=> ~r.fresh /\ netFailed /\ ~r.stale /\ ~embeddedTLE
  /\ r.err <=> r.tier = 0
  /\ r.fresh \/ r.stale => r.content # << >>
  /\ r.tier = 4 => r.content = Embedded

\* With "the network tier succeeded" read as the code reads it (no error
\* from fetchFromNetwork), loadOrFetch keeps the order of the tiers.
TierOrderByFetchError ==
  \A p \in Fetchers :
    res[p].done /\ fkind[p] = "fetch" => TierOrder(res[p], res[p].netOK)

\* C18: loadOrFetch returns the content of the first tier that succeeds, in
\* the order fresh disk, network (a 200 response with a non-empty body),
\* stale disk, embedded copy, and returns an error exactly when all four
\* fail.
C18_FirstSucceedingTierWins ==
  \A p \in Fetchers :
    res[p].done /\ fkind[p] = "fetch" =>
      TierOrder(res[p], res[p].netOK /\ res[p].content # << >>)

\* A finished fetch that began right after a write of the cache file: the
\* file the write put at the cache path was there, younger than maxAge, when
\* the call began, and nothing replaced or aged it since.
FollowsWrite(p) ==
  /\ res[p].done
  /\ fkind[p] = "fetch"
  /\ startIno[p] # 0
  /\ ~disturbed[p]

\* A fetch right after a write of a non-empty body returns that body and
\* makes no request.
NonEmptyWriteIsReused ==
  \A p \in Fetchers :
    FollowsWrite(p) /\ intent[startIno[p]] # << >> =>
      /\ res[p].content = intent[startIno[p]]
      /\ res[p].tier = 1
      /\ ~res[p].net

\* C19: a fetch right after a force refresh, or after any fetch whose
\* network tier succeeded, has written the cache file returns exactly the
\* written content and makes no network request.
C19_FetchAfterWriteReusesIt ==
  \A p \in Fetchers :
    FollowsWrite(p) =>
      /\ res[p].content = intent[startIno[p]]
      /\ ~res[p].net

\* While handleStats holds the mutex the counters agree: the total it copies
\* is the sum of the map at that instant.
LockedViewConsistent ==
  rPc = "locked" =>
    /\ rTotal = captureStats.total
    /\ rTotal = SumBySat(captureStats.bySat)

\* C20: in every response of handleStats total_captures is the sum of the
\* captures_by_satellite values of that response, also when a capture
\* completes while the request is served.
C20_SnapshotConsistent ==
  resp # NoResp /\ ~resp.crashed => resp.total = SumBySat(resp.bySat)

\* The entries of the ring come from log events only.
OnlyLogEventsBuffered ==
  \A i \in 1..Len(appended) : sent[appended[i].id].type = "log"

\* A log event sent through App.emit is in the ring history when emit
\* returns.
EmittedLogEventsBuffered ==
  \A i \in 1..Len(sent) :
    sent[i].type = "log" /\ sent[i].component = "ephemerisd" /\ i \in returned
      => \E k \in 1..Len(appended) : appended[k].id = i

\* C21: every log event a component has broadcast is appended to the log
\* ring once the broadcasting call has returned, whichever component sent
\* it, and nothing but log events is appended.
C21_LogEventsBuffered ==
  /\ \A i \in 1..Len(sent) :
       sent[i].type = "log" /\ i \in returned
         => \E k \in 1..Len(appended) : appended[k].id = i
  /\ OnlyLogEventsBuffered

\* The last n elements of a sequence.
LastN(q, n) == SubSeq(q, Len(q) - n + 1, Len(q))

\* C22: the log ring never holds more than its capacity, and whenever its
\* mutex is free it holds exactly the most recent min(n, capacity) of the n
\* entries appended so far, in append order; a response of the log reader
\* is a run of such entries no longer than the capacity.
C22_RingHoldsMostRecent ==
  /\ Len(logBuf) <= LogBufCap
  /\ logBufMu = "" =>
       logBuf = LastN(appended, Min(Len(appended), LogBufCap))
  /\ Len(logsRead) <= LogBufCap
  /\ \E k \in Len(logsRead)..Len(appended) :
       logsRead = SubSeq(appended, k - Len(logsRead) + 1, k)

\* C22 witness: more entries than the capacity were appended by both
\* callers, one is waiting for the mutex, and the reader has seen a full
\* ring.
C22_Witness ==
  /\ Len(appended) > LogBufCap
  /\ logBufMu = ""
  /\ \E h \in Emitters : ePc[h] = "lock"
  /\ Len(logsRead) = LogBufCap
  /\ logsRead = logBuf

\* When the scheduler is between two calls of a round that has come back
\* to IDLE, or has not left it, no current pass is set.
IdleAtRestHasNoPass ==
  state = "IDLE" /\ tCalls = << >> => currentPass = NoPass

\* C23: no status response carries state IDLE together with a current pass,
\* however the read interleaves with the scheduler.
C23_IdleStatusHasNoPass ==
  statusResp.state = "IDLE" => statusResp.current_pass = NoPass

CycleStart ==
  pc = "compute" \/ (pc = "sleep" /\ sleepKind \in {"err", "nopass"})

TriggeredCaptureDone ==
  pc = "cap_ret" /\ capKind = "triggered" /\ ~capErr /\ pc' # pc

Handles(t) ==
  /\ pc = "sleep"
  /\ Commands # << >>
  /\ Head(Commands).type = t
  /\ Commands' = Tail(Commands)

\* What a command handler can change besides the Reply channel.
handlerState ==
  << paused, state, currentPass, captureStats, captureCancel, captureCtxDone,
     capKind, req, skipped >>

\* The one result sent by the step for the command at the head of Commands.
SentResult == replyCh'[Head(Commands).id][Len(replyCh'[Head(Commands).id])]

\* C26: a pause command leaves the pause flag set and is answered ok=true,
\* and handled while the flag is already set it changes nothing; a resume
\* command leaves the flag clear and is answered ok=true, and handled while
\* the flag is already clear it changes nothing.
C26_PauseResumeIdempotent ==
  /\ [][ Handles("pause") =>
           /\ paused'
           /\ cmds'[Head(Commands).id].replies = 1
           /\ SentResult.ok
           /\ paused => UNCHANGED handlerState ]_vars
  /\ [][ Handles("resume") =>
           /\ ~paused'
           /\ cmds'[Head(Commands).id].replies = 1
           /\ SentResult.ok
           /\ ~paused => UNCHANGED handlerState ]_vars

\* C26 witness: one command has set the pause flag, and a second pause
\* command is about to be handled in the paused sleep.
C26_Witness ==
  /\ paused
  /\ pc = "sleep"
  /\ sleepKind = "paused"
  /\ \E k \in CmdIds : cmds[k].st \in {"taken", "done"} /\ cmds[k].replies = 1
  /\ Commands # << >>
  /\ Head(Commands).type = "pause"


\* A capture whose header write succeeded: the file holds a header.
HasHeader == fExists /\ fLen >= HeaderLen

\* The sizes in the header are those of the file.
HeaderFinal ==
  /\ riffSize = Uint32(fLen - RiffSkip)
  /\ dataSize = Uint32(fLen - HeaderLen)

\* A crash of rtl_fm during the pass ends the capture as an end of stream:
\* no error, and the file is kept.
CrashIsEndOfStream ==
  cRet.returned /\ radio = "crashed" =>
    ~cRet.err /\ cRet.outPath # "" /\ HasHeader

\* C27: a capture whose radio subprocess is missing, cannot be started or
\* crashes during the pass returns without error, with the path of a retained
\* file whose header is finalised.
C27_RadioFailureIsEndOfStream ==
  cRet.returned /\ radio \in {"missing", "crashed"} =>
    ~cRet.err /\ cRet.outPath # "" /\ HasHeader /\ HeaderFinal


\* A successful capture whose header patch did not fail leaves the sizes of
\* the file in the header, also when no audio was written.
HeaderFinalUnlessPatchFailed ==
  cRet.returned /\ ~cRet.err /\ ~fixFailed => HasHeader /\ HeaderFinal

\* C28: after a capture that returns successfully with a file of L >= 44
\* bytes, the RIFF size at offset 4 is L - 8 and the data size at offset 40 is
\* L - 44.
C28_HeaderMatchesLength ==
  cRet.returned /\ ~cRet.err /\ fLen >= HeaderLen =>
    riffSize = fLen - RiffSkip /\ dataSize = fLen - HeaderLen


\* The types handleCommand dispatches.
CommandTypes == {"trigger", "tle_refresh", "pause", "resume", "skip", "cancel"}

\* A command with a protocol error: a trigger whose payload does not parse or
\* names no satellite of the catalog, or a command of unknown type.
ProtocolError(cmd) ==
  \/ /\ cmd.type = "trigger"
     /\ \/ ~cmd.payload.wellFormed
        \/ SatelliteByNoradID(cmd.payload.norad_id) = NoSat
  \/ cmd.type \notin CommandTypes

\* The scheduler handles a command with a protocol error.
HandlesProtocolError ==
  /\ pc = "sleep"
  /\ Commands # << >>
  /\ ProtocolError(Head(Commands))
  /\ Commands' = Tail(Commands)

\* C29: a command with a protocol error is answered once, with ok=false and
\* an error text, and its handling changes neither DaemonState, the pause
\* flag, capture_cancel, the current pass nor CaptureStats and starts no
\* capture.
C29_ProtocolErrorHasNoEffect ==
  [][ HandlesProtocolError =>
        /\ cmds'[Head(Commands).id].replies = cmds[Head(Commands).id].replies + 1
        /\ ~SentResult.ok
        /\ SentResult.error
        /\ UNCHANGED handlerState
        /\ pc' # "cap_begin" ]_vars

\* C29 witness: while the scheduler waits for a pass, one command has been
\* answered ok=false, the state is untouched, and a trigger for a catalog
\* number that is not in the catalog is about to be handled.
C29_Witness ==
  /\ pc = "sleep"
  /\ sleepKind = "aos"
  /\ state = "WAITING_FOR_PASS"
  /\ currentPass # NoPass
  /\ ~paused
  /\ \E k \in CmdIds :
       /\ cmds[k].st = "taken"
       /\ replyCh[k] = << Result(FALSE, "") >>
  /\ Commands # << >>
  /\ Head(Commands).type = "trigger"
  /\ Head(Commands).payload = Payload(99999, 1)


\* The active configuration and the remembered path are a pair that one
\* successful Load produced, whenever no reload holds the write lock.
ConfigAndPathTogether ==
  cfgMu.writer = "" => [cfg |-> cfg, path |-> configPath] \in loaded

\* The configuration and the path change only in a step of the request that
\* holds the write lock.
ReplacedUnderWriteLock ==
  cfg' # cfg \/ configPath' # configPath =>
    /\ cfgMu.writer # ""
    /\ hPc[cfgMu.writer] \in {"root", "rate", "path"}
    /\ hPc'[cfgMu.writer] # hPc[cfgMu.writer]

\* A request is answered with an error: it held no lock and changed nothing.
FailedReloadChangesNothing ==
  \A r \in Reloaders :
    hResp'[r] \notin {"", "ok"} /\ (hResp'[r] # hResp[r] \/ hPath'[r] # hPath[r]
                                    \/ hPc'[r] # hPc[r]) =>
      /\ hPc[r] \in {"idle", "load"}
      /\ hPc'[r] = "idle"
      /\ cfgMu.writer # r
      /\ UNCHANGED << cfg, configPath, cfgMu >>

\* Every configuration getConfig returned is one that Load produced whole.
ReadsAreComplete ==
  \A g \in Getters : \E l \in loaded : gResult[g] = l.cfg

\* C30: a reload replaces the configuration and the remembered path together,
\* under the write lock and only with what a successful Load returned; a
\* reload that fails changes neither; and getConfig returns the complete old
\* or the complete new configuration.
C30_ReloadIsAtomic ==
  /\ []ConfigAndPathTogether
  /\ [][ReplacedUnderWriteLock]_vars
  /\ [][FailedReloadChangesNothing]_vars
  /\ []ReadsAreComplete

\* C30 witness: a reload of the profile has replaced configuration and path,
\* a later reload has failed, and getConfig has returned the new
\* configuration.
C30_Witness ==
  /\ cfg = Config(2)
  /\ configPath = "palmdale.toml"
  /\ cfgMu.writer = ""
  /\ \E r \in Reloaders : hResp[r] = "ok"
  /\ \E r \in Reloaders : hResp[r] = "config reload failed"
  /\ \E g \in Getters : gResult[g] = Config(2) /\ gPc[g] = "idle"


\* The windows the propagator reported to a call, as passes.
Reported(in) ==
  UNION { { Pass(n, in.raw[n].windows[i]) : i \in 1..Len(in.raw[n].windows) } :
          n \in { m \in SatNames : in.raw[m].ok /\ ~in.raw[m].err } }

\* C31 (as claimed): the passes ComputePasses returns are sorted strictly
\* ascending by AOS.
C31_StrictlyAscendingByAOS ==
  pOut.returned =>
    \A i \in 1..(Len(pOut.passes) - 1) :
      pOut.passes[i].aos < pOut.passes[i + 1].aos

\* C31 (amended): the passes ComputePasses returns are sorted ascending by
\* AOS: of two consecutive passes the later one never has the earlier AOS;
\* passes of different satellites with the same AOS stand side by side.
C31_AscendingByAOS ==
  pOut.returned =>
    \A i \in 1..(Len(pOut.passes) - 1) :
      pOut.passes[i].aos <= pOut.passes[i + 1].aos

\* C31 witness: passes of two satellites merged, two of them with the same
\* AOS, a later pass accumulated before an earlier one.
C31_Witness ==
  /\ pOut.returned
  /\ Len(pOut.passes) >= 3
  /\ pOut.passes[1].aos = pOut.passes[2].aos
  /\ pOut.passes[1].sat # pOut.passes[2].sat
  /\ pOut.passes[1].sat = "NOAA-19"


\* The passes a call returned, as a set.
Returned == { pOut.passes[i] : i \in 1..Len(pOut.passes) }

\* C32: ComputePasses returns exactly the reported windows whose peak
\* elevation is not below the minimum, each once; satellites without elements
\* or with a failing propagation contribute nothing and do not fail the call.
C32_ExactlyTheWindowsAboveMinimum ==
  pOut.returned =>
    /\ pOut.err <=> ~pIn.fetchOK
    /\ ~pOut.err =>
         /\ Returned = { w \in Reported(pIn) : w.maxElev >= pIn.min }
         /\ Cardinality(Returned) = Len(pOut.passes)

\* C32 witness: one satellite without elements, one whose propagation
\* failed, and one with a window below and a window above the minimum, of
\* which the call returned the second.
C32_Witness ==
  /\ pOut.returned
  /\ ~pOut.err
  /\ pIn.min = 45
  /\ ~pIn.raw["NOAA-15"].ok
  /\ pIn.raw["NOAA-18"].err
  /\ pIn.raw["NOAA-19"].windows = << Window(1, 0), Window(2, 90) >>
  /\ pOut.passes = << Pass("NOAA-19", Window(2, 90)) >>

\* C33 (as claimed): with a minimum of 0 every reported window is returned,
\* and with a minimum of 90 none.
C33_BoundariesOfMinElevation ==
  pOut.returned /\ ~pOut.err =>
    /\ pIn.min = 0 => Returned = Reported(pIn)
    /\ pIn.min = 90 => pOut.passes = << >>

\* C33 (amended): with a minimum of 0 every reported window is returned, and
\* with a minimum of 90 exactly the windows whose peak elevation is 90.
C33_BoundariesAreInclusive ==
  pOut.returned /\ ~pOut.err =>
    /\ pIn.min = 0 => Returned = Reported(pIn)
    /\ pIn.min = 90 => Returned = { w \in Reported(pIn) : w.maxElev = 90 }

\* C33 witness: with a minimum of 90, a window peaking at 90 was returned and
\* one peaking at 0 was not.
C33_Witness ==
  /\ pOut.returned
  /\ pIn.min = 90
  /\ pIn.raw["NOAA-15"].windows = << Window(1, 0), Window(2, 90) >>
  /\ pOut.passes # << >>
  /\ \A i \in 1..Len(pOut.passes) : pOut.passes[i].maxElev = 90


\* The lines the parser groups: the text without the blank lines at its ends.
Grouped == SplitTrimmed(tIn)

\* The catalog numbers of the parseable groups of three consecutive lines.
ParseableGroups ==
  { ParseTLE(Grouped[3 * k + 1], Grouped[3 * k + 2], Grouped[3 * k + 3]) :
      k \in 0..((Len(Grouped) \div 3) - 1) } \ {0}

\* C34: the keys of the map parseForNOAA returns are exactly the catalog
\* numbers of the parseable groups of three consecutive lines that belong to
\* the catalog, and it fails exactly when there is none.
C34_ParserKeepsCatalogGroups ==
  tOut.returned =>
    /\ DOMAIN tOut.tles = ParseableGroups \cap Wanted
    /\ tOut.err <=> ParseableGroups \cap Wanted = {}

\* C34 witness: a group of an object outside the catalog and a group of
\* NOAA-19 were read, and only the second one is in the map.
C34_Witness ==
  /\ tOut.returned
  /\ Len(tIn) = MaxLines
  /\ MaxLines >= 6
  /\ SubSeq(tIn, 1, 6) = << NameLine, Line1(OtherNoradID), Line2(OtherNoradID),
                           NameLine, Line1(33591), Line2(33591) >>
  /\ DOMAIN tOut.tles = {33591}

\* C35: a command leaves the Commands channel only in sleepOrCommand, never
\* while DaemonState is RECORDING or DECODING; a command that is queued
\* while the state is RECORDING or DECODING stays queued.
C35_DequeuedOnlyInSleep ==
  [][ /\ Len(Commands') < Len(Commands) =>
           pc = "sleep" /\ state \notin {"RECORDING", "DECODING"}
      /\ \A k \in CmdIds :
           (cmds[k].st = "queued" /\ state \in {"RECORDING", "DECODING"}) =>
             cmds'[k].st = "queued" ]_vars

\* C35 witness: a cancel command sent while Capture was running has been
\* dequeued, at a sleep point after the capture and the decoding sleep.
C35_Witness ==
  \E k \in CmdIds :
    /\ cmds[k].cancelInRecording
    /\ cmds[k].st = "taken"
    /\ state \notin {"RECORDING", "DECODING"}

\* C36: a scheduled capture of a pass starts only from the wait for that
\* pass, with the clock at or after its AOS and the state and the current
\* pass still those the wait began with; the wait is resumed only by its
\* timer, never after a command or the shutdown signal ended a sleep; and a
\* pass whose AOS is past when its turn comes is passed over with no change
\* of the state, the current pass, the broadcast queue or the statistics,
\* and no capture.
C36_CaptureOnlyAfterCompletedWait ==
  [][ /\ (capKind' = "scheduled" /\ capKind # "scheduled") =>
           /\ pc = "wait"
           /\ now >= upcoming[idx].aos
           /\ req'.sat = upcoming[idx].sat /\ req'.aos = upcoming[idx].aos
           /\ state = "WAITING_FOR_PASS"
           /\ currentPass = PassInfo(upcoming[idx], "waiting")
      /\ (pc = "sleep" /\ sleepKind = "aos" /\ pc' = "wait") =>
           TimerExpired(sleepStart) /\ Commands' = Commands
      /\ (pc = "iter" /\ idx <= Len(upcoming) /\ now > upcoming[idx].aos
            /\ << pc, idx >>' # << pc, idx >>) =>
           /\ \/ ctxDone /\ pc' = "returned" /\ idx' = idx
              \/ ~ctxDone /\ pc' = "iter" /\ idx' = idx + 1
           /\ UNCHANGED << state, currentPass, captureStats, broadcast,
                           capKind, req, captureCancel >> ]_vars

\* C36 witness: the first pass was captured for so long that the second
\* one's AOS is past when its turn comes.
C36_Witness ==
  /\ pc = "iter"
  /\ idx = 2
  /\ idx <= Len(upcoming)
  /\ now > upcoming[idx].aos
  /\ state = "IDLE"
  /\ captureStats.total = 1
  /\ ~ctxDone

\* C37: the stored cancel function is set exactly while a Capture call of
\* the scheduler, scheduled or triggered, is executing; that call is the only
\* one; and the function is nil wherever sleepOrCommand can take a command.
C37_CancelSetExactlyDuringCapture ==
  /\ captureCancel <=> pc \in {"cap_begin", "capturing", "cap_ret"}
  /\ captureCancel <=> capKind \in {"scheduled", "triggered"}
  /\ captureCancel <=> req # NoReq
  /\ pc = "sleep" => ~captureCancel

\* C37 witness: a triggered capture is executing with the cancel function
\* stored while a cancel command waits in Commands.
C37_Witness ==
  /\ captureCancel
  /\ capKind = "triggered"
  /\ pc = "capturing"
  /\ Commands # << >>
  /\ Head(Commands).type = "cancel"

\* C38 (as claimed): while the state is RECORDING, the current pass, if one
\* is set, names the satellite being recorded and has stage "recording", for
\* a scheduled capture and for a triggered one.
C38_RecordingPassIsRecorded ==
  (state = "RECORDING" /\ currentPass # NoPass) =>
    /\ currentPass.sat = req.sat
    /\ currentPass.stage = "recording"

\* During a scheduled capture the current pass is the recorded one with
\* stage "recording"; during a triggered capture it is whatever the sleep
\* point that took the trigger had left: none, or a pass with stage "waiting".
RecordingPassByKind ==
  state = "RECORDING" =>
    /\ capKind = "scheduled" =>
         currentPass = [sat |-> req.sat, aos |-> req.aos, stage |-> "recording"]
    /\ capKind = "triggered" =>
         currentPass = NoPass \/ currentPass.stage = "waiting"

\* The changes of DaemonState of the live daemon.
LiveTransitions ==
  { << "BOOTING", "IDLE" >>,
    << "IDLE", "WAITING_FOR_PASS" >>,
    << "WAITING_FOR_PASS", "RECORDING" >>,
    << "RECORDING", "DECODING" >>,
    << "DECODING", "IDLE" >>,
    << "WAITING_FOR_PASS", "IDLE" >>,
    << "IDLE", "RECORDING" >>,
    << "RECORDING", "IDLE" >> }

\* C39: DaemonState never becomes BOOTING again, and each of its changes is
\* one of the eight of LiveTransitions.
C39_OnlyLiveTransitions ==
  [][ state' # state =>
        /\ state' # "BOOTING"
        /\ << state, state' >> \in LiveTransitions ]_vars

\* C39 witness: a trigger taken during the wait for a pass has recorded and
\* set IDLE: WAITING_FOR_PASS to RECORDING to IDLE.
C39_Witness ==
  /\ state = "IDLE"
  /\ pc = "loop"
  /\ sleepKind = "aos"
  /\ upcoming # << >>
  /\ ~ctxDone

\* C40 (as claimed): once the shutdown signal is raised no command is taken
\* from Commands, the state does not change to RECORDING and no capture is
\* started (Capture is not entered, so no capture file is created).
C40_NothingStartsAfterShutdown ==
  [][ ctxDone =>
        /\ Len(Commands') >= Len(Commands)
        /\ state' = "RECORDING" => state = "RECORDING"
        /\ capKind' # "" => capKind # ""
        /\ pc' = "capturing" => pc = "capturing" ]_vars

====
